---- MODULE Spec2Model ----
(***************************************************************************)
(* A model of the document styling and navigation engine of readest:       *)
(* ParagraphIterator (utils/paragraph), transformStylesheet, getStyles and  *)
(* getThemeCode (utils/style), and the download of the updater window.     *)
(*                                                                         *)
(* A document body is a sequence of nodes in document (pre-)order; node i  *)
(* names its parent (0 is the body) and is an element with a tag name or a *)
(* text node with character data.  A boundary point (node, offset) of the  *)
(* DOM is the number of the gap it denotes in the serialisation of the     *)
(* body in which every node has an opening token, a closing token and, if  *)
(* it is a text node, one token per character in between.  The order of    *)
(* gaps is the DOM's order of boundary points.                             *)
(***************************************************************************)
EXTENDS Integers, Sequences, FiniteSets, TLC

VARIABLES
    doc,        \* the document body handed to createAsync
    batchSize,  \* the batchSize argument of createAsync
    targetRange, \* the range of the document that findByRangeAsync is asked for
    build,      \* the activation of createAsync: its locals and where it stands
    blocks,     \* ParagraphIterator.#blocks
    index,      \* ParagraphIterator.#index
    scan,       \* the activation of findByRangeAsync
    call,       \* the last completed public call: what was asked, what came back
    sheet,      \* the CSS text handed to transformStylesheet, and what became of it
    style,      \* the settings and stored theme getStyles and getThemeCode read
    rival,      \* a second activation of createAsync on the same document
    faults,     \* the boundary operations of createAsync that throw
    download    \* the activation of the updater's downloadWithProgress

vars ==
    <<doc, batchSize, targetRange, build, blocks, index, scan, call, sheet, style, rival,
      faults, download>>

(***************************************************************************)
(* Bounds of the model.                                                    *)
(***************************************************************************)
\* nodes of a freely shaped document body
MaxNodes == 4
\* paragraphs of a flat document <p>x</p><p>y</p>...
MaxParas == 3
\* largest batchSize argument
MaxBatch == 3
\* the block cap, scaled down from 5000
MAX_BLOCKS == 2
\* declarations of an input CSS text, and applications of
\* transformStylesheet to its own output
MaxDecls == 2
MaxApply == 2

\* a null node reference and a null Range reference
NoNode == 0 - 2
NoRange == [startContainer |-> NoNode, start |-> 0, endContainer |-> NoNode, end |-> 0]
TextKind == "#text"
Body == 0
\* the parent of the body (the html element)
Html == 0 - 1

(***************************************************************************)
(* Tag names and characters.                                               *)
(***************************************************************************)
blockTags ==
    { "article", "aside", "blockquote", "caption", "details", "div", "dl",
      "dt", "dd", "figure", "footer", "figcaption", "h1", "h2", "h3", "h4",
      "h5", "h6", "header", "hgroup", "li", "main", "nav", "ol", "p", "pre",
      "section", "tr" }

MEDIA_SELECTOR ==
    { "img", "svg", "video", "audio", "canvas", "math", "iframe", "object",
      "embed", "hr" }

\* One representative per class of INVISIBLE_TEXT_PATTERN: SP for \s,
\* NBSP for U+00A0 and the Unicode space separators, ZWSP for U+200B-U+200D
\* and U+2060, BOM for U+FEFF.  "a" stands for any other character.
INVISIBLE_TEXT_PATTERN == { "SP", "NBSP", "ZWSP", "BOM" }

IsVisibleChar(c) == c \notin INVISIBLE_TEXT_PATTERN

\* mutant: a pattern of \s alone, which leaves nbsp, zero-width and BOM
IsNotWhitespace(c) == c # "SP"
hasMeaningfulText_WhitespaceOnly(text) == Len(SelectSeq(text, IsNotWhitespace)) > 0

hasMeaningfulText(text) == Len(SelectSeq(text, IsVisibleChar)) > 0

(***************************************************************************)
(* Documents.                                                              *)
(***************************************************************************)
Element(tag) == [kind |-> tag, data |-> <<>>]
Text(chars) == [kind |-> TextKind, data |-> chars]

Node(parent, shape) == [parent |-> parent, kind |-> shape.kind, data |-> shape.data]

IsElement(d, i) == d[i].kind # TextKind

ParentOf(d, i) == IF i = Body THEN Html ELSE d[i].parent

RECURSIVE InclusiveAncestor(_, _, _)
\* a is x or an ancestor of x
InclusiveAncestor(d, a, x) ==
    IF x = a THEN TRUE
    ELSE IF x <= Body THEN FALSE
    ELSE InclusiveAncestor(d, a, d[x].parent)

\* the tokens node j contributes to the serialisation
TokLen(d, j) == 2 + Len(d[j].data)

\* the index of the opening token of node i (tokens count from 0)
OpenTok(d, i) ==
    LET s[j \in 0..(i - 1)] ==
            IF j = 0 THEN 0
            ELSE s[j - 1] + (IF InclusiveAncestor(d, j, i) THEN 1 ELSE TokLen(d, j))
    IN s[i - 1]

\* the tokens of the proper descendants of node i
DescTok(d, i) ==
    LET s[j \in i..Len(d)] ==
            IF j = i THEN 0
            ELSE s[j - 1] + (IF InclusiveAncestor(d, i, j) THEN TokLen(d, j) ELSE 0)
    IN s[Len(d)]

\* the index of the closing token of node i
CloseTok(d, i) == OpenTok(d, i) + 1 + Len(d[i].data) + DescTok(d, i)

\* the number of tokens of the body's content
TotalTok(d) ==
    LET s[j \in 0..Len(d)] == IF j = 0 THEN 0 ELSE s[j - 1] + TokLen(d, j)
    IN s[Len(d)]

\* the boundary point (node, 0)
PointInside(d, i) == IF i = Body THEN 0 ELSE OpenTok(d, i) + 1
\* the boundary point (parent of node, index of node)
PointBefore(d, i) == IF i = Body THEN 0 - 1 ELSE OpenTok(d, i)
\* the boundary point (parent of node, index of node + 1)
PointAfter(d, i) == IF i = Body THEN TotalTok(d) + 1 ELSE CloseTok(d, i) + 1

\* body.firstChild and body.lastChild, or null
FirstChild(d) == IF Len(d) = 0 THEN NoNode ELSE 1
LastChild(d) ==
    IF Len(d) = 0 THEN NoNode
    ELSE CHOOSE i \in 1..Len(d) :
            /\ d[i].parent = Body
            /\ \A j \in (i + 1)..Len(d) : d[j].parent # Body

(***************************************************************************)
(* Ranges: a start and an end boundary point, each with its container.     *)
(***************************************************************************)
\* doc.createRange() followed by setStart(node, 0)
RangeAt(d, node) ==
    [startContainer |-> node, start |-> PointInside(d, node),
     endContainer |-> node, end |-> PointInside(d, node)]

\* mutant: the end is set after the node instead of before it
SetEndBefore_After(d, r, node) ==
    [r EXCEPT !.endContainer = ParentOf(d, node), !.end = PointAfter(d, node)]

\* range.setEndBefore(node); a start after the new end collapses onto it
SetEndBefore(d, r, node) ==
    LET e == PointBefore(d, node) IN
    IF r.start > e
    THEN [startContainer |-> ParentOf(d, node), start |-> e,
          endContainer |-> ParentOf(d, node), end |-> e]
    ELSE [r EXCEPT !.endContainer = ParentOf(d, node), !.end = e]

\* range.setEndAfter(node)
SetEndAfter(d, r, node) ==
    LET e == PointAfter(d, node) IN
    IF r.start > e
    THEN [startContainer |-> ParentOf(d, node), start |-> e,
          endContainer |-> ParentOf(d, node), end |-> e]
    ELSE [r EXCEPT !.endContainer = ParentOf(d, node), !.end = e]

\* the characters of text node i that lie inside the range, in order
TextInRange(d, r, i) ==
    LET o == OpenTok(d, i)
        Inside(k) == r.start <= o + k /\ o + k + 1 <= r.end
        pick[k \in 0..Len(d[i].data)] ==
            IF k = 0 THEN <<>>
            ELSE IF Inside(k) THEN Append(pick[k - 1], d[i].data[k]) ELSE pick[k - 1]
    IN pick[Len(d[i].data)]

\* range.toString(): the text of the range's text nodes, in document order
RangeToString(d, r) ==
    LET s[i \in 0..Len(d)] ==
            IF i = 0 THEN <<>>
            ELSE IF IsElement(d, i) THEN s[i - 1]
            ELSE s[i - 1] \o TextInRange(d, r, i)
    IN s[Len(d)]

\* node i is contained in the range: (i, 0) is after its start and
\* (i, length) before its end
Contained(d, r, i) == OpenTok(d, i) >= r.start /\ CloseTok(d, i) < r.end

\* node i is partially contained: an inclusive ancestor of one container only
PartiallyContained(d, r, i) ==
    InclusiveAncestor(d, i, r.startContainer) # InclusiveAncestor(d, i, r.endContainer)

\* range.cloneContents(): the nodes that have a clone in the fragment
CloneContents(d, r) ==
    { i \in 1..Len(d) : Contained(d, r, i) \/ PartiallyContained(d, r, i) }

rangeHasContent(d, r) ==
    IF hasMeaningfulText(RangeToString(d, r)) THEN TRUE
    ELSE \E i \in CloneContents(d, r) : d[i].kind \in MEDIA_SELECTOR

hasDirectText(d, node) ==
    \E c \in 1..Len(d) :
        d[c].parent = node /\ d[c].kind = TextKind /\ hasMeaningfulText(d[c].data)

\* mutant: an element child of any tag counts as a block child
hasBlockChild_AnyChild(d, node) ==
    \E c \in 1..Len(d) : d[c].parent = node /\ IsElement(d, c)

hasBlockChild(d, node) ==
    \E c \in 1..Len(d) :
        d[c].parent = node /\ IsElement(d, c) /\ d[c].kind \in blockTags

(***************************************************************************)
(* createAsync.                                                            *)
(***************************************************************************)
\* TreeWalker(body, SHOW_ELEMENT).nextNode() from node i: the next element
\* in document order, or null
NextNode(d, i) ==
    IF \E j \in (i + 1)..Len(d) : IsElement(d, j)
    THEN CHOOSE j \in (i + 1)..Len(d) :
            IsElement(d, j) /\ \A k \in (i + 1)..(j - 1) : ~IsElement(d, k)
    ELSE NoNode

\* the body of one loop iteration, after the yield point: lines 1066-1089.
\* b.throws holds the boundary operations that throw, each with the node
\* that is visited when it is called; a throw is caught where the code
\* catches it
VisitElement(d, b) ==
    LET node == b.node
        name == d[node].kind
        Throws(op) == <<op, node>> \in b.throws
        closed == SetEndBefore(d, b.last, node)
        keep == b.last # NoRange /\ ~Throws("setEndBefore") /\ rangeHasContent(d, closed)
    IN
    IF name \in blockTags /\ ~(hasBlockChild(d, node) /\ ~hasDirectText(d, node))
    THEN [b EXCEPT !.blocks = IF keep THEN Append(b.blocks, closed) ELSE b.blocks,
                   !.count = IF keep THEN b.count + 1 ELSE b.count,
                   !.last = IF Throws("createRange") \/ Throws("setStart")
                            THEN NoRange ELSE RangeAt(d, node)]
    ELSE b

\* mutant: no early return when the cap was reached
Finish_NoCapReturn(d, b) ==
    LET last == IF b.last = NoRange
                THEN RangeAt(d, IF FirstChild(d) = NoNode THEN Body ELSE FirstChild(d))
                ELSE b.last
        closed == SetEndAfter(d, last, IF LastChild(d) = NoNode THEN Body ELSE LastChild(d))
    IN [b EXCEPT !.pc = "done", !.last = closed,
                 !.blocks = IF rangeHasContent(d, closed)
                            THEN Append(b.blocks, closed) ELSE b.blocks]

\* mutant: the range that is open when the walk ends is not closed
Finish_OpenRangeLost(d, b) == [b EXCEPT !.pc = "done"]

\* the code after the loop: lines 1092-1117; the operations called after
\* the loop throw where b.throws holds them with no node
Finish(d, b) ==
    LET Throws(op) == <<op, NoNode>> \in b.throws IN
    IF b.count >= MAX_BLOCKS
    THEN [b EXCEPT !.pc = "done"]
    ELSE IF b.last = NoRange /\ (Throws("createRange") \/ Throws("setStart"))
    THEN [b EXCEPT !.pc = "done"]
    ELSE
        LET startNode == IF FirstChild(d) = NoNode THEN Body ELSE FirstChild(d)
            endNode == IF LastChild(d) = NoNode THEN Body ELSE LastChild(d)
            last == IF b.last = NoRange THEN RangeAt(d, startNode) ELSE b.last
            closed == SetEndAfter(d, last, endNode)
        IN IF Throws("setEndAfter")
           THEN [b EXCEPT !.pc = "done", !.last = last]
           ELSE [b EXCEPT !.pc = "done", !.last = closed,
                          !.blocks = IF rangeHasContent(d, closed)
                                     THEN Append(b.blocks, closed) ELSE b.blocks]

RECURSIVE RunLoop_NoYield(_, _, _)
\* mutant: the loop never awaits
RunLoop_NoYield(d, bs, b) ==
    IF b.node # NoNode /\ b.count < MAX_BLOCKS
    THEN LET p == [b EXCEPT !.processed = b.processed + 1] IN
         RunLoop_NoYield(d, bs, [VisitElement(d, p) EXCEPT !.node = NextNode(d, p.node)])
    ELSE Finish(d, b)

RECURSIVE RunLoop(_, _, _)
\* the loop from its condition on, up to the next await or the return; v is
\* the value of the locals after the visit, from which the loop goes on
RunLoop(d, bs, b) ==
    IF b.node # NoNode /\ b.count < MAX_BLOCKS
    THEN LET p == [b EXCEPT !.processed = b.processed + 1] IN
         IF p.processed % bs = 0
         THEN [p EXCEPT !.pc = "yield"]
         ELSE CHOOSE r \in { RunLoop(d, bs, v) :
                             v \in {[VisitElement(d, p) EXCEPT
                                        !.node = NextNode(d, p.node)]} } : TRUE
    ELSE Finish(d, b)

\* mutant: the continuation awaits again where it stands
ResumeLoop_AwaitAgain(d, bs, b) == b

\* mutant: the walk goes on behind the node at which it was suspended
ResumeLoop_SkipNode(d, bs, b) ==
    RunLoop(d, bs, [b EXCEPT !.node = NextNode(d, b.node), !.pc = "loop"])

\* the continuation of `await yieldToMain()`
ResumeLoop(d, bs, b) ==
    CHOOSE r \in { RunLoop(d, bs, v) :
                   v \in {[VisitElement(d, b) EXCEPT !.node = NextNode(d, b.node),
                                                      !.pc = "loop"]} } : TRUE

\* the call up to its first await
StartBuild(d, bs, throws) ==
    RunLoop(d, bs, [pc |-> "loop", node |-> NextNode(d, Body), last |-> NoRange,
                    count |-> 0, processed |-> 0, blocks |-> <<>>, throws |-> throws])

Idle == [pc |-> "idle", node |-> NoNode, last |-> NoRange, count |-> 0, processed |-> 0,
         blocks |-> <<>>, throws |-> {}]

\* a node of another document, and a value that is no Node at all
Foreign == 0 - 3
NotANode == 0 - 4
ForeignRange ==
    [startContainer |-> Foreign, start |-> 0, endContainer |-> Foreign, end |-> 0]

NoCall ==
    [op |-> "none", arg |-> NoNode, target |-> NoRange, before |-> 0 - 1,
     ret |-> NoRange, via |-> "none"]

NoScan == [pc |-> "idle", i |-> 0, target |-> NoRange, batchSize |-> 1]

\* no CSS text has been handed to transformStylesheet
NoCss == [inline |-> TRUE, rules |-> <<>>]
NoEnv == [vw |-> 0, vh |-> 0, vertical |-> FALSE, isMobile |-> FALSE]
NoSheet == [input |-> NoCss, css |-> NoCss, prev |-> NoCss, applied |-> 0, env |-> NoEnv]

\* no style has been asked for
NoStyle == [calls |-> 0, asked |-> FALSE]

\* downloadWithProgress has not been called
NoDownload ==
    [pc |-> "idle", onEvent |-> FALSE, feed |-> <<>>, fails |-> FALSE, downloaded |-> 0,
     total |-> 0, events |-> <<>>, timers |-> 0, promise |-> "none"]

(***************************************************************************)
(* Navigation.  The code counts blocks from 0: #blocks[i] is bl[i + 1].    *)
(* Each operator gives the cursor and the value returned.                  *)
(***************************************************************************)
\* this.#blocks[i] ?? null
BlockAt(bl, i) == IF i >= 0 /\ i < Len(bl) THEN bl[i + 1] ELSE NoRange

Outcome(idx, r, how) == [index |-> idx, ret |-> r, via |-> how]

FirstResult(bl, idx) ==
    IF Len(bl) = 0 THEN Outcome(idx, NoRange, "first")
    ELSE Outcome(0, BlockAt(bl, 0), "first")

LastResult(bl, idx) ==
    IF Len(bl) = 0 THEN Outcome(idx, NoRange, "last")
    ELSE Outcome(Len(bl) - 1, BlockAt(bl, Len(bl) - 1), "last")

\* mutant: the bound check admits newIndex = length
NextResult_OffByOne(bl, idx) ==
    IF idx + 1 <= Len(bl) THEN Outcome(idx + 1, BlockAt(bl, idx + 1), "next")
    ELSE Outcome(idx, NoRange, "next")

NextResult(bl, idx) ==
    LET newIndex == idx + 1 IN
    IF newIndex < Len(bl) THEN Outcome(newIndex, BlockAt(bl, newIndex), "next")
    ELSE Outcome(idx, NoRange, "next")

\* mutant: the block before the cursor is returned and the cursor stays
PrevResult_CursorStays(bl, idx) ==
    IF idx - 1 >= 0 THEN Outcome(idx, BlockAt(bl, idx - 1), "prev")
    ELSE Outcome(idx, NoRange, "prev")

PrevResult(bl, idx) ==
    LET newIndex == idx - 1 IN
    IF newIndex >= 0 THEN Outcome(newIndex, BlockAt(bl, newIndex), "prev")
    ELSE Outcome(idx, NoRange, "prev")

\* mutant: the bound check admits index = length
GoToResult_OffByOne(bl, idx, i) ==
    IF i >= 0 /\ i <= Len(bl) THEN Outcome(i, BlockAt(bl, i), "goTo")
    ELSE Outcome(idx, NoRange, "goTo")

GoToResult(bl, idx, i) ==
    IF i >= 0 /\ i < Len(bl) THEN Outcome(i, BlockAt(bl, i), "goTo")
    ELSE Outcome(idx, NoRange, "goTo")

\* block.intersectsNode(node) for a node of the document
IntersectsNode(d, r, node) ==
    PointBefore(d, node) < r.end /\ PointAfter(d, node) > r.start

\* the test of line 1176 is true: a node of another document intersects no
\* range, a value that is no Node makes the call throw
IntersectsTest(d, r, node) ==
    IF node \in {Foreign, NotANode} THEN FALSE ELSE IntersectsNode(d, r, node)

\* mutant: the scan keeps the last block that intersects
FindByNodeResult_LastMatch(d, bl, idx, node) ==
    IF node = NoNode THEN FirstResult(bl, idx)
    ELSE IF \E i \in 0..(Len(bl) - 1) : IntersectsTest(d, BlockAt(bl, i), node)
    THEN LET i == CHOOSE i \in 0..(Len(bl) - 1) :
                    /\ IntersectsTest(d, BlockAt(bl, i), node)
                    /\ \A j \in (i + 1)..(Len(bl) - 1) : ~IntersectsTest(d, BlockAt(bl, j), node)
         IN Outcome(i, BlockAt(bl, i), "scan")
    ELSE FirstResult(bl, idx)

RECURSIVE FindByNodeFrom(_, _, _, _, _)
\* the loop of findByNode from block i on, and the fallback after it
FindByNodeFrom(d, bl, idx, node, i) ==
    IF i < Len(bl)
    THEN IF IntersectsTest(d, BlockAt(bl, i), node)
         THEN Outcome(i, BlockAt(bl, i), "scan")
         ELSE FindByNodeFrom(d, bl, idx, node, i + 1)
    ELSE FirstResult(bl, idx)

FindByNodeResult(d, bl, idx, node) ==
    IF node = NoNode THEN FirstResult(bl, idx)
    ELSE FindByNodeFrom(d, bl, idx, node, 0)

\* -1, 0 or 1: boundary point a is before, equal to or after b
ComparePoints(a, b) == IF a < b THEN 0 - 1 ELSE IF a > b THEN 1 ELSE 0

\* block.compareBoundaryPoints(Range.START_TO_END, target): the block's end
\* against the target's start
StartToEnd(block, target) == ComparePoints(block.end, target.start)

\* block.compareBoundaryPoints(Range.END_TO_START, target): the block's
\* start against the target's end
EndToStart(block, target) == ComparePoints(block.start, target.end)

\* mutant: the block's end must lie strictly after the target's start
ScanMatches_Strict(block, target) ==
    /\ target.startContainer # Foreign
    /\ StartToEnd(block, target) > 0 /\ EndToStart(block, target) <= 0

\* the test of line 1201 is reached and true; comparing with a range of
\* another document throws
ScanMatches(block, target) ==
    /\ target.startContainer # Foreign
    /\ StartToEnd(block, target) >= 0 /\ EndToStart(block, target) <= 0

RECURSIVE RunScan_Uncaught(_, _, _, _)
\* mutant: a comparison that throws is not caught and the call rejects
RunScan_Uncaught(d, bl, idx, sc) ==
    IF sc.i < Len(bl)
    THEN IF sc.pc = "loop" /\ sc.i > 0 /\ sc.i % sc.batchSize = 0
         THEN [scan |-> [sc EXCEPT !.pc = "yield"], done |-> FALSE,
               out |-> Outcome(idx, NoRange, "none")]
         ELSE IF sc.target.startContainer = Foreign
              THEN [scan |-> NoScan, done |-> TRUE,
                    out |-> Outcome(idx, NoRange, "rejected")]
         ELSE IF ScanMatches(BlockAt(bl, sc.i), sc.target)
              THEN [scan |-> NoScan, done |-> TRUE,
                    out |-> Outcome(sc.i, BlockAt(bl, sc.i), "scan")]
              ELSE RunScan_Uncaught(d, bl, idx, [sc EXCEPT !.pc = "loop", !.i = sc.i + 1])
    ELSE [scan |-> NoScan, done |-> TRUE,
          out |-> [FindByNodeResult(d, bl, idx, sc.target.startContainer)
                      EXCEPT !.via = "node"]]

RECURSIVE RunScan_CursorKept(_, _, _, _)
\* mutant: the block that matches is returned and the cursor is not set
RunScan_CursorKept(d, bl, idx, sc) ==
    IF sc.i < Len(bl)
    THEN IF sc.pc = "loop" /\ sc.i > 0 /\ sc.i % sc.batchSize = 0
         THEN [scan |-> [sc EXCEPT !.pc = "yield"], done |-> FALSE,
               out |-> Outcome(idx, NoRange, "none")]
         ELSE IF ScanMatches(BlockAt(bl, sc.i), sc.target)
              THEN [scan |-> NoScan, done |-> TRUE,
                    out |-> Outcome(idx, BlockAt(bl, sc.i), "scan")]
              ELSE RunScan_CursorKept(d, bl, idx, [sc EXCEPT !.pc = "loop", !.i = sc.i + 1])
    ELSE [scan |-> NoScan, done |-> TRUE,
          out |-> [FindByNodeResult(d, bl, idx, sc.target.startContainer)
                      EXCEPT !.via = "node"]]

RECURSIVE RunScan(_, _, _, _)
\* findByRangeAsync from the loop condition on, up to the next await or the
\* return; sc.i is the loop variable
RunScan(d, bl, idx, sc) ==
    IF sc.i < Len(bl)
    THEN IF sc.pc = "loop" /\ sc.i > 0 /\ sc.i % sc.batchSize = 0
         THEN [scan |-> [sc EXCEPT !.pc = "yield"], done |-> FALSE,
               out |-> Outcome(idx, NoRange, "none")]
         ELSE IF ScanMatches(BlockAt(bl, sc.i), sc.target)
              THEN [scan |-> NoScan, done |-> TRUE,
                    out |-> Outcome(sc.i, BlockAt(bl, sc.i), "scan")]
              ELSE RunScan(d, bl, idx, [sc EXCEPT !.pc = "loop", !.i = sc.i + 1])
    ELSE [scan |-> NoScan, done |-> TRUE,
          out |-> [FindByNodeResult(d, bl, idx, sc.target.startContainer)
                      EXCEPT !.via = "node"]]

\* the node that holds gap g: the innermost node it lies in, or the body
ContainerOf(d, g) ==
    IF \E i \in 1..Len(d) : OpenTok(d, i) < g /\ g <= CloseTok(d, i)
    THEN CHOOSE i \in 1..Len(d) :
            /\ OpenTok(d, i) < g /\ g <= CloseTok(d, i)
            /\ \A j \in 1..Len(d) : (OpenTok(d, j) < g /\ g <= CloseTok(d, j)) => j <= i
    ELSE Body

RangeOf(d, s, e) ==
    [startContainer |-> ContainerOf(d, s), start |-> s,
     endContainer |-> ContainerOf(d, e), end |-> e]

\* the ranges of the document
RangesOf(d) ==
    UNION { { RangeOf(d, s, e) : e \in s..TotalTok(d) } : s \in 0..TotalTok(d) }

(***************************************************************************)
(* The documents and arguments the model runs on.                          *)
(***************************************************************************)
TreeShapes ==
    { Element("p"), Element("span"), Element("img"),
      Text(<<"a">>), Text(<<"SP">>) }

ParaChildren ==
    { Text(<<"a">>), Text(<<"SP">>), Text(<<"NBSP">>), Text(<<"ZWSP">>),
      Text(<<"BOM">>), Element("img"), Element("br") }

\* parent[i] names a node that is still open when node i starts: the body
\* or an element among node i-1 and its ancestors
WellFormed(d) ==
    \A i \in 1..Len(d) :
        /\ d[i].parent \in 0..(i - 1)
        /\ d[i].parent # Body =>
              /\ IsElement(d, d[i].parent)
              /\ InclusiveAncestor(d, d[i].parent, i - 1)

\* the document with the given parents and node shapes
DocOf(par, shp) == [i \in DOMAIN par |-> Node(par[i], shp[i])]

\* the parent assignments of n nodes that form a tree in document order
TreeParents(n) ==
    { par \in [1..n -> 0..(n - 1)] : WellFormed(DocOf(par, [i \in 1..n |-> Element("p")])) }

\* the document bodies of n paragraphs with one child each
FlatDocs(n) ==
    { [i \in 1..(2 * n) |->
          IF i % 2 = 1 THEN Node(Body, Element("p")) ELSE Node(i - 1, c[i \div 2])] :
      c \in [1..n -> ParaChildren] }

Init ==
    /\ \/ \E n \in 0..MaxNodes :
             \E par \in TreeParents(n) : \E shp \in [1..n -> TreeShapes] :
                WellFormed(DocOf(par, shp)) /\ doc = DocOf(par, shp)
       \/ \E n \in 1..MaxParas : doc \in FlatDocs(n)
    /\ batchSize \in 1..MaxBatch
    /\ targetRange = NoRange
    /\ build = Idle
    /\ blocks = <<>>
    /\ index = 0 - 1
    /\ scan = NoScan
    /\ call = NoCall
    /\ sheet = NoSheet
    /\ style = NoStyle
    /\ rival = Idle
    /\ faults = {}
    /\ download = NoDownload

\* ParagraphIterator.createAsync(doc, batchSize), up to its first await
CreateAsync ==
    /\ build.pc = "idle"
    /\ build' = StartBuild(doc, batchSize, faults)
    /\ blocks' = IF build'.pc = "done" THEN build'.blocks ELSE blocks
    /\ UNCHANGED <<doc, batchSize, targetRange, index, scan, call, sheet, style, rival, faults, download>>

\* the frame callback of yieldToMain resolves and the loop goes on
FrameCallback ==
    /\ build.pc = "yield"
    /\ UNCHANGED <<doc, batchSize, targetRange, index, scan, call, sheet, style, rival,
                   faults, download>>
    /\ build' = ResumeLoop(doc, batchSize, build)
    /\ blocks' = IF build'.pc = "done" THEN build'.blocks ELSE blocks

Next == CreateAsync \/ FrameCallback

Spec == Init /\ [][Next]_vars

(***************************************************************************)
(* The iterator in use: the public methods of a constructed iterator.      *)
(***************************************************************************)
NavChildren == { Text(<<"a">>), Text(<<"SP">>) }

\* the flat documents of n paragraphs with a child of NavChildren each
NavDocs(n) ==
    { d \in FlatDocs(n) :
        \A i \in 1..n : [kind |-> d[2 * i].kind, data |-> d[2 * i].data] \in NavChildren }

InitNav ==
    /\ \E n \in 0..MAX_BLOCKS : doc \in NavDocs(n)
    /\ batchSize = 1
    /\ targetRange \in RangesOf(doc)
    /\ build = Idle
    /\ blocks = <<>>
    /\ index = 0 - 1
    /\ scan = NoScan
    /\ call = NoCall
    /\ sheet = NoSheet
    /\ style = NoStyle
    /\ rival = Idle
    /\ faults = {}
    /\ download = NoDownload

Constructed == build.pc = "done"

\* a synchronous method returns: the cursor moves and the call is recorded
Return(op, arg, target, out) ==
    /\ index' = out.index
    /\ call' = [op |-> op, arg |-> arg, target |-> target, before |-> index,
                ret |-> out.ret, via |-> out.via]
    /\ UNCHANGED <<doc, batchSize, targetRange, build, blocks, sheet, style, rival, faults, download>>

length ==
    /\ Constructed
    /\ Return("length", Len(blocks), NoRange, Outcome(index, NoRange, "length"))
    /\ UNCHANGED scan

currentIndex ==
    /\ Constructed
    /\ Return("currentIndex", index, NoRange, Outcome(index, NoRange, "currentIndex"))
    /\ UNCHANGED scan

current ==
    /\ Constructed
    /\ Return("current", NoNode, NoRange, Outcome(index, BlockAt(blocks, index), "current"))
    /\ UNCHANGED scan

first ==
    /\ Constructed
    /\ Return("first", NoNode, NoRange, FirstResult(blocks, index))
    /\ UNCHANGED scan

last ==
    /\ Constructed
    /\ Return("last", NoNode, NoRange, LastResult(blocks, index))
    /\ UNCHANGED scan

next ==
    /\ Constructed
    /\ Return("next", NoNode, NoRange, NextResult(blocks, index))
    /\ UNCHANGED scan

prev ==
    /\ Constructed
    /\ Return("prev", NoNode, NoRange, PrevResult(blocks, index))
    /\ UNCHANGED scan

goTo ==
    /\ Constructed
    /\ \E i \in (0 - 1)..(Len(blocks) + 1) :
          Return("goTo", i, NoRange, GoToResult(blocks, index, i))
    /\ UNCHANGED scan

findByNode ==
    /\ Constructed
    /\ \E node \in (0..Len(doc)) \cup {NoNode, Foreign, NotANode} :
          Return("findByNode", node, NoRange, FindByNodeResult(doc, blocks, index, node))
    /\ UNCHANGED scan

\* a turn of findByRangeAsync ends: at an await, or with the value returned
ScanTurn(t, r) ==
    /\ scan' = r.scan
    /\ IF r.done
       THEN Return("findByRangeAsync", NoNode, t, r.out)
       ELSE UNCHANGED <<doc, batchSize, targetRange, build, blocks, index, call, sheet, style, rival, faults, download>>

\* findByRangeAsync(targetRange, batchSize), up to its first await
findByRangeAsync ==
    /\ Constructed
    /\ scan.pc = "idle"
    /\ \E t \in {targetRange, NoRange, ForeignRange}, bs \in 1..MaxBatch :
          IF t = NoRange
          THEN /\ Return("findByRangeAsync", NoNode, t,
                         [FirstResult(blocks, index) EXCEPT !.via = "null"])
               /\ UNCHANGED scan
          ELSE ScanTurn(t, RunScan(doc, blocks, index,
                                   [pc |-> "loop", i |-> 0, target |-> t, batchSize |-> bs]))

\* the frame callback of findByRangeAsync's yieldToMain resolves
ScanCallback ==
    /\ scan.pc = "yield"
    /\ ScanTurn(scan.target, RunScan(doc, blocks, index, scan))

NextNav ==
    \/ CreateAsync \/ FrameCallback
    \/ length \/ currentIndex \/ current
    \/ first \/ last \/ next \/ prev \/ goTo
    \/ findByNode \/ findByRangeAsync \/ ScanCallback

SpecNav == InitNav /\ [][NextNav]_vars

(***************************************************************************)
(* Two builds of one document and the scans of the iterator, under a       *)
(* scheduler that runs every frame callback it was handed.  The iterator   *)
(* is made from the build `build`; the build `rival` is the one whose      *)
(* result is no longer waited for.                                         *)
(***************************************************************************)
\* the batch size of the second call, another one than the first call's
RivalBatch == (batchSize % MaxBatch) + 1

\* mutant: the two activations push to one array of blocks
Locals_Shared(own, other) == [own EXCEPT !.blocks = other.blocks]

\* blocks, last, count, processed and the walker are locals of the call:
\* lines 1052-1057
Locals(own, other) == own

InitLive ==
    /\ \E n \in 0..MaxParas : doc \in NavDocs(n)
    /\ batchSize \in {1, MaxBatch}
    /\ targetRange \in {RangeOf(doc, 0, 0), RangeOf(doc, TotalTok(doc), TotalTok(doc))}
    /\ build = Idle
    /\ blocks = <<>>
    /\ index = 0 - 1
    /\ scan = NoScan
    /\ call = NoCall
    /\ sheet = NoSheet
    /\ style = NoStyle
    /\ rival = Idle
    /\ faults = {}
    /\ download = NoDownload

\* a second createAsync(doc, batchSize) on the same document
CreateAsyncRival ==
    /\ rival.pc = "idle"
    /\ rival' = StartBuild(doc, RivalBatch, faults)
    /\ UNCHANGED <<doc, batchSize, targetRange, build, blocks, index, scan, call, sheet,
                   style, faults, download>>

\* the frame callback of the second build's yieldToMain resolves
FrameCallbackRival ==
    /\ rival.pc = "yield"
    /\ UNCHANGED <<doc, batchSize, targetRange, build, blocks, index, scan, call, sheet,
                   style, faults, download>>
    /\ rival' = ResumeLoop(doc, RivalBatch, Locals(rival, build))

NextLive ==
    \/ CreateAsync \/ FrameCallback
    \/ CreateAsyncRival \/ FrameCallbackRival
    \/ findByRangeAsync \/ ScanCallback

\* requestAnimationFrame and setTimeout run the callback they were given
SpecLive ==
    /\ InitLive /\ [][NextLive]_vars
    /\ WF_vars(FrameCallback) /\ WF_vars(FrameCallbackRival) /\ WF_vars(ScanCallback)

(***************************************************************************)
(* What createAsync is to return, stated on the document alone.            *)
(***************************************************************************)
Min(a, b) == IF a <= b THEN a ELSE b

\* the block-tag elements at which a range is closed and a new one opened
Qualifying(d) ==
    { i \in 1..Len(d) :
        /\ d[i].kind \in blockTags
        /\ (\E c \in 1..Len(d) : d[c].parent = i /\ d[c].kind \in blockTags) =>
              (\E c \in 1..Len(d) :
                  /\ d[c].parent = i /\ d[c].kind = TextKind
                  /\ \E k \in 1..Len(d[c].data) : d[c].data[k] \notin INVISIBLE_TEXT_PATTERN) }

\* the next qualifying element after q, or null
NextQualifying(d, q) ==
    IF \E j \in Qualifying(d) : j > q
    THEN CHOOSE j \in Qualifying(d) : j > q /\ \A k \in Qualifying(d) : k > q => j <= k
    ELSE NoNode

\* the candidate range opened at qualifying element q
Candidate(d, q) ==
    LET n == NextQualifying(d, q) IN
    [startContainer |-> q, start |-> OpenTok(d, q) + 1,
     endContainer |-> IF n = NoNode THEN Body ELSE d[n].parent,
     end |-> IF n = NoNode THEN TotalTok(d) ELSE OpenTok(d, n)]

\* a character other than the invisible ones lies between the boundaries
HasVisibleText(d, r) ==
    \E i \in 1..Len(d) : \E k \in 1..Len(d[i].data) :
        /\ d[i].kind = TextKind
        /\ d[i].data[k] \notin INVISIBLE_TEXT_PATTERN
        /\ r.start <= OpenTok(d, i) + k
        /\ OpenTok(d, i) + k < r.end

\* a media element lies between the boundaries, or is cut by exactly one
\* of them (it encloses one container and not the other)
HasMedia(d, r) ==
    \E i \in 1..Len(d) :
        /\ d[i].kind \in MEDIA_SELECTOR
        /\ \/ r.start <= OpenTok(d, i) /\ CloseTok(d, i) + 1 <= r.end
           \/ /\ InclusiveAncestor(d, i, r.startContainer)
              /\ ~InclusiveAncestor(d, i, r.endContainer)
           \/ /\ InclusiveAncestor(d, i, r.endContainer)
              /\ ~InclusiveAncestor(d, i, r.startContainer)

MeaningfulContent(d, r) == HasVisibleText(d, r) \/ HasMedia(d, r)

\* the candidates with meaningful content, in document order
ExpectedBlocks(d) ==
    LET s[i \in 0..Len(d)] ==
            IF i = 0 THEN <<>>
            ELSE IF i \in Qualifying(d) /\ MeaningfulContent(d, Candidate(d, i))
                 THEN Append(s[i - 1], Candidate(d, i))
                 ELSE s[i - 1]
    IN s[Len(d)]

Descendants(d, q) == { j \in 1..Len(d) : j # q /\ InclusiveAncestor(d, q, j) }

\* q is a top-level paragraph whose candidate range is its own content
PlainParagraph(d, q) ==
    /\ q \in Qualifying(d)
    /\ d[q].parent = Body
    /\ Candidate(d, q).end = CloseTok(d, q) + 1

BlockStartsAt(bl, q) == \E k \in 1..Len(bl) : bl[k].startContainer = q

BuildDone == build.pc = "done"
CapReached == build.count >= MAX_BLOCKS

\* C1: when the cap is not reached, the blocks of a document with a
\* qualifying block element are exactly its candidate ranges with meaningful
\* content (visible text, or a media element in the range's contents), in
\* document order; so a paragraph of only whitespace, nbsp, zero-width
\* characters, BOM or <br> starts no block and an image-only paragraph
\* starts one.
C1_KeptIffMeaningful ==
    (BuildDone /\ ~CapReached /\ Qualifying(doc) # {}) =>
        /\ build.blocks = ExpectedBlocks(doc)
        /\ \A i, j \in 1..Len(build.blocks) :
              i < j => build.blocks[i].start < build.blocks[j].start
        /\ \A q \in 1..Len(doc) :
              PlainParagraph(doc, q) =>
                /\ (\A j \in Descendants(doc, q) :
                        /\ doc[j].kind \notin MEDIA_SELECTOR
                        /\ \A k \in 1..Len(doc[j].data) :
                              doc[j].data[k] \in INVISIBLE_TEXT_PATTERN)
                      => ~BlockStartsAt(build.blocks, q)
                /\ (\E j \in Descendants(doc, q) : doc[j].kind \in MEDIA_SELECTOR)
                      => BlockStartsAt(build.blocks, q)

\* a finished build below the cap that kept "a", dropped an nbsp-only
\* paragraph and kept an image-only paragraph
C1_Witness ==
    /\ BuildDone /\ ~CapReached
    /\ Len(doc) = 6
    /\ doc[2].data = <<"a">> /\ doc[4].data = <<"NBSP">> /\ doc[6].kind = "img"
    /\ Len(build.blocks) = 2
    /\ BlockStartsAt(build.blocks, 1)
    /\ ~BlockStartsAt(build.blocks, 3)
    /\ BlockStartsAt(build.blocks, 5)

\* the number of candidate ranges with meaningful content
ContentfulCount(d) == Len(ExpectedBlocks(d))

\* C3 as stated: more than MAX_BLOCKS qualifying block elements give
\* exactly MAX_BLOCKS blocks.
C3_Original ==
    (BuildDone /\ Cardinality(Qualifying(doc)) > MAX_BLOCKS) =>
        Len(build.blocks) = MAX_BLOCKS

\* C3 amended: more than MAX_BLOCKS qualifying block elements whose
\* candidate ranges have meaningful content give exactly MAX_BLOCKS blocks,
\* and no build ever holds more than MAX_BLOCKS blocks.
C3_CapEnforced ==
    /\ Len(build.blocks) <= MAX_BLOCKS
    /\ (BuildDone /\ ContentfulCount(doc) > MAX_BLOCKS) =>
          Len(build.blocks) = MAX_BLOCKS

C3_Witness ==
    /\ BuildDone
    /\ ContentfulCount(doc) > MAX_BLOCKS
    /\ Len(build.blocks) = MAX_BLOCKS

\* C4: the blocks of a finished build are ordered and pairwise
\* non-overlapping: an earlier block ends at or before the start of every
\* later one.
C4_NonOverlapping ==
    BuildDone =>
        \A i, j \in 1..Len(build.blocks) :
            i < j => build.blocks[i].end <= build.blocks[j].start

\* two blocks, the second opened at a qualifying element nested in the
\* qualifying element (with direct text) that opened the first
C4_Witness ==
    /\ BuildDone
    /\ Len(build.blocks) = 2
    /\ build.blocks[2].startContainer # Body
    /\ doc[build.blocks[2].startContainer].parent = build.blocks[1].startContainer
    /\ hasDirectText(doc, build.blocks[1].startContainer)

(***************************************************************************)
(* Navigation and lookup, stated on the record of the last call returned.  *)
(***************************************************************************)
\* the call left the cursor where it was and returned null
ReturnedNullUnmoved == call.ret = NoRange /\ index = call.before

\* C2: a navigation call that cannot move returns null and leaves the
\* cursor unchanged: goTo(i) with i < 0 or i >= N, next() at N-1, prev() at
\* a cursor <= 0 (the unpositioned -1 included), first() and last() on an
\* empty sequence.
C2_BoundsReturnNull ==
    LET N == Len(blocks) IN
    /\ (call.op = "goTo" /\ (call.arg < 0 \/ call.arg >= N)) => ReturnedNullUnmoved
    /\ (call.op = "next" /\ call.before = N - 1) => ReturnedNullUnmoved
    /\ (call.op = "prev" /\ call.before <= 0) => ReturnedNullUnmoved
    /\ (call.op \in {"first", "last"} /\ N = 0) => ReturnedNullUnmoved

\* goTo(N) on two blocks with the cursor on the last one
C2_Witness ==
    /\ call.op = "goTo" /\ call.arg = Len(blocks)
    /\ Len(blocks) = 2 /\ call.before = 1
    /\ index = 1 /\ call.ret = NoRange

\* the indices of the blocks that the target overlaps or touches
Overlapping(bl, t) ==
    { i \in 0..(Len(bl) - 1) :
        BlockAt(bl, i).start <= t.end /\ BlockAt(bl, i).end >= t.start }

ScanReturned == call.op = "findByRangeAsync" /\ call.via = "scan"

\* C5 as stated: the block returned by the scan contains the target.
C5_Original ==
    ScanReturned =>
        call.ret.start <= call.target.start /\ call.ret.end >= call.target.end

\* C5 amended: the block returned by the scan of findByRangeAsync is the
\* lowest-index block that overlaps or touches the target (block end >=
\* target start and block start <= target end); it need not contain the
\* target.  The scan of a target of the document falls through to
\* findByNode only when no block overlaps or touches it.
C5_ScanReturnsFirstOverlap ==
    /\ ScanReturned =>
          /\ index \in Overlapping(blocks, call.target)
          /\ \A j \in Overlapping(blocks, call.target) : index <= j
          /\ call.ret = BlockAt(blocks, index)
    /\ (call.op = "findByRangeAsync" /\ call.via = "node"
           /\ call.target # ForeignRange) =>
          Overlapping(blocks, call.target) = {}

\* the scan returned the first of two blocks for a target that starts
\* inside it and ends in the second
C5_Witness ==
    /\ ScanReturned
    /\ Len(blocks) = 2 /\ index = 0
    /\ call.target.start > call.ret.start
    /\ call.target.start < call.ret.end
    /\ call.target.end > call.ret.end

\* the indices of the blocks that intersect the node of the last call
Intersecting(d, bl, node) ==
    { i \in 0..(Len(bl) - 1) :
        node \in 0..Len(d) /\ IntersectsNode(d, BlockAt(bl, i), node) }

\* C6: findByNode returns the lowest-index block that intersects the node
\* and moves the cursor there; for a null node, or when no block intersects
\* (a test that throws included), it does what first() does: cursor 0 and
\* block 0, or null and an unmoved cursor on an empty sequence.
C6_FindByNode ==
    call.op = "findByNode" =>
        LET hits == Intersecting(doc, blocks, call.arg) IN
        IF hits # {}
        THEN /\ index \in hits /\ \A j \in hits : index <= j
             /\ call.ret = BlockAt(blocks, index)
        ELSE IF Len(blocks) = 0
             THEN ReturnedNullUnmoved
             ELSE index = 0 /\ call.ret = BlockAt(blocks, 0)

\* the body intersects both blocks: block 0 is returned from cursor 1
C6_Witness ==
    /\ call.op = "findByNode" /\ call.arg = Body
    /\ Cardinality(Intersecting(doc, blocks, Body)) = 2
    /\ call.before = 1 /\ index = 0
    /\ call.ret = BlockAt(blocks, 0)

\* C7: once built, the block list stays the list createAsync returned, the
\* cursor is -1 or an index of the list, and the accessors length,
\* currentIndex and current() leave the cursor where it was.
C7_ListFixedCursorInRange ==
    /\ BuildDone => blocks = build.blocks
    /\ index = 0 - 1 \/ index \in 0..(Len(blocks) - 1)
    /\ call.op \in {"length", "currentIndex", "current"} => index = call.before

\* current() on the last of two blocks, after navigation moved the cursor
C7_Witness ==
    /\ call.op = "current"
    /\ Len(blocks) = 2 /\ blocks = build.blocks
    /\ call.before = 1 /\ index = 1
    /\ call.ret = BlockAt(blocks, 1)

(***************************************************************************)
(* transformStylesheet.  A CSS text is kept as the pieces its regular      *)
(* expressions tell apart: rules (a selector and a block of declarations;  *)
(* an inline style is one block without selector and braces), for each     *)
(* declaration its property name, its value as a sequence of lexical       *)
(* atoms (numerals, words, blanks) and whether a ';' follows it, and for   *)
(* each block whether its first property name directly follows '{' (or     *)
(* the start of the text).  Blanks between declarations are not kept: no   *)
(* replacement of the function matches text that it has produced itself,   *)
(* so two texts with the same pieces are rewritten alike.  Numerals are    *)
(* digits with an optional fraction; a numeral's value is a fraction n/d   *)
(* in lowest terms, which is what JavaScript prints for the numbers used.  *)
(***************************************************************************)
RECURSIVE GCD(_, _)
GCD(a, b) == IF b = 0 THEN a ELSE GCD(b, a % b)

Word(s) == [t |-> "word", s |-> s, n |-> 0, d |-> 1]
Num(n, d) == [t |-> "num", s |-> "", n |-> n \div GCD(n, d), d |-> d \div GCD(n, d)]
Sp == Word(" ")
Important == <<Sp, Word("!important")>>

Decl(p, v, semi) == [prop |-> p, val |-> v, semi |-> semi]
Rule(sel, tight, decls) == [selector |-> sel, tight |-> tight, decls |-> decls]
Css(inline, rules) == [inline |-> inline, rules |-> rules]

\* the property names of the model that end in another property name: a
\* regular expression that starts with a bare property name finds it there
NameSuffixes ==
    { <<"scroll-margin-bottom", "margin-bottom">>, <<"text-overflow", "overflow">>,
      <<"max-width", "width">>, <<"max-height", "height">> }

\* /name\s*:/ finds a match at this declaration's property
PropMatches(prop, name) == prop = name \/ <<prop, name>> \in NameSuffixes

\* /name\s*:/.test(block)
HasProp(decls, name) == \E k \in 1..Len(decls) : PropMatches(decls[k].prop, name)

\* /name\s*:\s*word\s*[;$]/ matches at this declaration: the value is the
\* word and a ';' follows (inside a class, $ is the dollar character)
Terminated(decl, name, word) ==
    PropMatches(decl.prop, name) /\ decl.val = <<Word(word)>> /\ decl.semi

\* css.replace(ruleRegex, ...): the block of rule r becomes block[r]; a
\* text without '{' has no match
ReplaceRules(css, block) ==
    IF css.inline THEN css
    ELSE [css EXCEPT !.rules = [r \in DOMAIN css.rules |->
                                    [css.rules[r] EXCEPT !.decls = block[r]]]]

\* block.replace(/}$/, ' prop: value; }')
AppendDecl(decls, prop, val) == Append(decls, Decl(prop, val, TRUE))

\* /text-indent\s*:\s*0(?:\.0+)?(?:px|em|rem|%)?\s*[;$]/ at this declaration
IndentZero(decl) ==
    /\ PropMatches(decl.prop, "text-indent") /\ decl.semi
    /\ Len(decl.val) \in {1, 2}
    /\ decl.val[1] = Num(0, 1)
    /\ Len(decl.val) = 2 => decl.val[2] \in {Word("px"), Word("em"), Word("rem"), Word("%")}

hasTextAlignCenter(decls) ==
    \E k \in 1..Len(decls) : Terminated(decls[k], "text-align", "center")

hasTextIndentZero(decls) == \E k \in 1..Len(decls) : IndentZero(decls[k])

\* lines 646-659: centred text with a zero indent gets both made important
HardenAlign(rule) ==
    IF hasTextAlignCenter(rule.decls) /\ hasTextIndentZero(rule.decls)
    THEN [k \in DOMAIN rule.decls |->
            IF Terminated(rule.decls[k], "text-align", "center") \/ IndentZero(rule.decls[k])
            THEN [rule.decls[k] EXCEPT !.val = @ \o Important]
            ELSE rule.decls[k]]
    ELSE rule.decls

hasWhiteSpaceNowrap(decls) ==
    \E k \in 1..Len(decls) : Terminated(decls[k], "white-space", "nowrap")

\* lines 662-671: clip nowrapped elements
ClipNowrap(rule) ==
    IF hasWhiteSpaceNowrap(rule.decls) /\ ~HasProp(rule.decls, "overflow")
    THEN AppendDecl(rule.decls, "overflow", <<Word("clip")>> \o Important)
    ELSE rule.decls

AvailableHeight == <<Word("calc(var(--available-height) * 1px)")>>

\* /page-break-after\s*:\s*always\s*[;]?/.test(css)
hasPageBreakAfterAlwaysInline(decls) ==
    \E k \in 1..Len(decls) :
        /\ PropMatches(decls[k].prop, "page-break-after")
        /\ Len(decls[k].val) >= 1 /\ decls[k].val[1] = Word("always")

\* lines 673-677: css.replace(/;?\s*$/, '') + '; margin-bottom: ...'
PageBreakInline(decls) ==
    IF hasPageBreakAfterAlwaysInline(decls) /\ ~HasProp(decls, "margin-bottom")
    THEN Append([decls EXCEPT ![Len(decls)].semi = TRUE],
                Decl("margin-bottom", AvailableHeight, FALSE))
    ELSE decls

\* lines 679-688
PageBreakBlock(rule) ==
    IF /\ \E k \in 1..Len(rule.decls) :
              Terminated(rule.decls[k], "page-break-after", "always")
       /\ ~HasProp(rule.decls, "margin-bottom")
    THEN AppendDecl(rule.decls, "margin-bottom", AvailableHeight)
    ELSE rule.decls

\* the words and property names of the model in which a direction occurs
Mentions ==
    { <<"top", "top">>, <<"bottom", "bottom">>, <<"left", "left">>, <<"right", "right">>,
      <<"lefttop", "left">>, <<"lefttop", "top">>,
      <<"margin-top", "top">>, <<"margin-bottom", "bottom">>,
      <<"margin-left", "left">>, <<"margin-right", "right">>,
      <<"scroll-margin-bottom", "bottom">>,
      <<"calc(-1 * var(--page-margin-top))", "top">>,
      <<"calc(-1 * var(--page-margin-bottom))", "bottom">>,
      <<"calc(-1 * var(--page-margin-left))", "left">>,
      <<"calc(-1 * var(--page-margin-right))", "right">>,
      <<"calc(var(--_max-width) + var(--page-margin-left) + var(--page-margin-right))", "left">>,
      <<"calc(var(--_max-width) + var(--page-margin-left) + var(--page-margin-right))", "right">>,
      <<"calc(100% + var(--page-margin-top) + var(--page-margin-bottom))", "top">>,
      <<"calc(100% + var(--page-margin-top) + var(--page-margin-bottom))", "bottom">> }

ValMentions(val, dir) == \E a \in 1..Len(val) : <<val[a].s, dir>> \in Mentions

\* new RegExp(`duokan-bleed\\s*:\\s*[^;]*${dir}[^;]*;`).test(block): the
\* direction stands between the hint's colon and the next ';', which may
\* be the ';' of a later declaration when the hint itself has none
bleedRegex(decls, dir) ==
    \E k \in 1..Len(decls) : \E j \in k..Len(decls) :
        /\ PropMatches(decls[k].prop, "duokan-bleed")
        /\ decls[j].semi /\ \A i \in k..(j - 1) : ~decls[i].semi
        /\ \E i \in k..j :
              \/ ValMentions(decls[i].val, dir)
              \/ i > k /\ <<decls[i].prop, dir>> \in Mentions

BleedMargin(dir) ==
    CASE dir = "top" -> <<Word("calc(-1 * var(--page-margin-top))")>> \o Important
      [] dir = "bottom" -> <<Word("calc(-1 * var(--page-margin-bottom))")>> \o Important
      [] dir = "left" -> <<Word("calc(-1 * var(--page-margin-left))")>> \o Important
      [] dir = "right" -> <<Word("calc(-1 * var(--page-margin-right))")>> \o Important

\* one round of the loop over the directions (lines 697-708)
BleedDir(st, dir) ==
    IF bleedRegex(st.decls, dir) /\ ~HasProp(st.decls, "margin-" \o dir)
    THEN [decls |-> AppendDecl(st.decls, "margin-" \o dir, BleedMargin(dir)),
          directions |-> st.directions \cup {dir}]
    ELSE st

\* block with the declaration appended unless the property is found
Unless(decls, name, val) ==
    IF HasProp(decls, name) THEN decls ELSE AppendDecl(decls, name, val \o Important)

BleedWidth(decls, directions) ==
    IF ~HasProp(decls, "width") /\ {"left", "right"} \subseteq directions
    THEN AppendDecl(
           AppendDecl(decls, "width",
             <<Word("calc(var(--_max-width) + var(--page-margin-left) + var(--page-margin-right))")>>
                \o Important),
           "max-width", <<Word("calc(var(--full-width) * 1px)")>> \o Important)
    ELSE decls

BleedHeight(decls, directions) ==
    IF ~HasProp(decls, "height") /\ {"top", "bottom"} \subseteq directions
    THEN AppendDecl(
           AppendDecl(decls, "height",
             <<Word("calc(100% + var(--page-margin-top) + var(--page-margin-bottom))")>>
                \o Important),
           "max-height", <<Word("calc(var(--full-height) * 1px)")>> \o Important)
    ELSE decls

\* lines 691-741: process duokan-bleed
Bleed(rule, vertical) ==
    IF vertical THEN rule.decls
    ELSE LET s0 == [decls |-> rule.decls, directions |-> {}]
             s4 == BleedDir(BleedDir(BleedDir(BleedDir(s0, "top"), "bottom"), "left"), "right")
         IN IF s4.directions = {} THEN s4.decls
            ELSE BleedHeight(
                   BleedWidth(
                     Unless(Unless(Unless(s4.decls, "position", <<Word("relative")>>),
                                   "overflow", <<Word("hidden")>>),
                            "display", <<Word("flow-root")>>),
                     s4.directions),
                   s4.directions)

\* /\bbody\b/i.test(selector), on the selectors of the model
BodySelector(selector) == selector \in {"body", "html body"}

\* lines 744-756: unset font-family for body when set to serif or sans-serif
UnsetBodyFont(rule) ==
    IF BodySelector(rule.selector)
    THEN [k \in DOMAIN rule.decls |->
            IF \/ Terminated(rule.decls[k], "font-family", "serif")
               \/ Terminated(rule.decls[k], "font-family", "sans-serif")
            THEN [rule.decls[k] EXCEPT !.val = <<Word("unset")>>]
            ELSE rule.decls[k]]
    ELSE rule.decls

\* the named font sizes in the order of their replacements, with what is
\* left of a word that only starts with the name
NamedSizes ==
    { [word |-> "xx-small", n |-> 3, d |-> 5, rest |-> ""],
      [word |-> "x-small", n |-> 3, d |-> 4, rest |-> ""],
      [word |-> "small", n |-> 7, d |-> 8, rest |-> ""],
      [word |-> "smaller", n |-> 7, d |-> 8, rest |-> "er"],
      [word |-> "medium", n |-> 1, d |-> 1, rest |-> ""],
      [word |-> "large", n |-> 6, d |-> 5, rest |-> ""],
      [word |-> "larger", n |-> 6, d |-> 5, rest |-> "er"],
      [word |-> "x-large", n |-> 3, d |-> 2, rest |-> ""],
      [word |-> "xx-large", n |-> 2, d |-> 1, rest |-> ""],
      [word |-> "xxx-large", n |-> 3, d |-> 1, rest |-> ""] }

Rest(s) == IF s = "" THEN <<>> ELSE <<Word(s)>>

\* lines 762-769: /font-size\s*:\s*small/gi and its like
FontSizeNamed(val) ==
    IF Len(val) >= 1 /\ \E e \in NamedSizes : val[1] = Word(e.word)
    THEN LET e == CHOOSE e \in NamedSizes : val[1] = Word(e.word)
         IN <<Num(e.n, e.d), Word("rem")>> \o Rest(e.rest) \o Tail(val)
    ELSE val

\* lines 770-777: parseFloat(px) / fontScale / 16, with fontScale 1.25 on
\* mobile; `per` is 16 for px and 12 for pt
FontSizeAbsolute(val, unit, per, isMobile) ==
    IF Len(val) >= 2 /\ val[1].t = "num" /\ val[2] = Word(unit)
    THEN <<IF isMobile THEN Num(val[1].n * 4, val[1].d * 5 * per)
                       ELSE Num(val[1].n, val[1].d * per),
           Word("rem")>> \o SubSeq(val, 3, Len(val))
    ELSE val

\* the text max(<size><unit>, var(--min-font-size, 8px))
Clamp(q, unit) == [t |-> "clamp", s |-> unit, n |-> q.n, d |-> q.d]

\* lines 778-780: /font-size\s*:\s*(\d*\.?\d+)(px|rem|em|%)?/gi with the
\* unit defaulting to px; what follows the match stays
FontSizeClamp(val) ==
    IF Len(val) >= 1 /\ val[1].t = "num"
    THEN IF Len(val) >= 2 /\ val[2] \in {Word("px"), Word("rem"), Word("em"), Word("%")}
         THEN <<Clamp(val[1], val[2].s)>> \o SubSeq(val, 3, Len(val))
         ELSE <<Clamp(val[1], "px")>> \o Tail(val)
    ELSE val

RECURSIVE ViewportUnit(_, _, _)
\* lines 781-782: /(\d*\.?\d+)vw/gi to (parseFloat(d) * vw) / 100 + 'px'
ViewportUnit(val, unit, size) ==
    IF Len(val) < 2 THEN val
    ELSE IF val[1].t = "num" /\ val[2] = Word(unit)
         THEN <<Num(val[1].n * size, val[1].d * 100), Word("px")>>
                 \o ViewportUnit(SubSeq(val, 3, Len(val)), unit, size)
         ELSE <<val[1]>> \o ViewportUnit(Tail(val), unit, size)

\* lines 783-793: /([\s;])prop\s*:\s*word/gi to '$1prop: to'; the word
\* may be the start of a longer one
Substitutions ==
    { [prop |-> "-webkit-user-select", word |-> "none", to |-> "unset", rest |-> ""],
      [prop |-> "-moz-user-select", word |-> "none", to |-> "unset", rest |-> ""],
      [prop |-> "-ms-user-select", word |-> "none", to |-> "unset", rest |-> ""],
      [prop |-> "-o-user-select", word |-> "none", to |-> "unset", rest |-> ""],
      [prop |-> "user-select", word |-> "none", to |-> "unset", rest |-> ""],
      [prop |-> "font-family", word |-> "monospace", to |-> "var(--monospace)", rest |-> ""],
      [prop |-> "font-weight", word |-> "normal", to |-> "var(--font-weight)", rest |-> ""],
      [prop |-> "color", word |-> "black", to |-> "var(--theme-fg-color)", rest |-> ""],
      [prop |-> "color", word |-> "#000000", to |-> "var(--theme-fg-color)", rest |-> ""],
      [prop |-> "color", word |-> "#000", to |-> "var(--theme-fg-color)", rest |-> ""],
      [prop |-> "color", word |-> "#000abc", to |-> "var(--theme-fg-color)", rest |-> "abc"],
      [prop |-> "color", word |-> "rgb(0,0,0)", to |-> "var(--theme-fg-color)", rest |-> ""],
      [prop |-> "color", word |-> "rgb(0, 0, 0)", to |-> "var(--theme-fg-color)", rest |-> ""] }

Substitute(prop, val) ==
    IF Len(val) >= 1 /\ \E e \in Substitutions : e.prop = prop /\ val[1] = Word(e.word)
    THEN LET e == CHOOSE e \in Substitutions : e.prop = prop /\ val[1] = Word(e.word)
         IN <<Word(e.to)>> \o Rest(e.rest) \o Tail(val)
    ELSE val

\* the property name of declaration k stands after a blank or a ';'
Anchored(rule, k) == k > 1 \/ ~rule.tight

\* lines 761-793 on one declaration
GlobalDecl(rule, k, vw, vh, isMobile) ==
    LET decl == rule.decls[k]
        sized == IF PropMatches(decl.prop, "font-size")
                 THEN FontSizeClamp(
                        FontSizeAbsolute(
                          FontSizeAbsolute(FontSizeNamed(decl.val), "px", 16, isMobile),
                          "pt", 12, isMobile))
                 ELSE decl.val
        fixed == ViewportUnit(ViewportUnit(sized, "vw", vw), "vh", vh)
    IN [decl EXCEPT !.val = IF Anchored(rule, k) THEN Substitute(decl.prop, fixed) ELSE fixed]

\* lines 761-793: the replacements on the whole text
GlobalReplacements(css, vw, vh, isMobile) ==
    [css EXCEPT !.rules = [r \in DOMAIN css.rules |->
        [css.rules[r] EXCEPT !.decls = [k \in DOMAIN css.rules[r].decls |->
            GlobalDecl(css.rules[r], k, vw, vh, isMobile)]]]]

\* lines 641-795
transformStylesheet(css, vw, vh, vertical, isMobile) ==
    LET isInlineStyle == css.inline
        aligned == ReplaceRules(css, [r \in DOMAIN css.rules |-> HardenAlign(css.rules[r])])
        clipped == ReplaceRules(aligned,
                                [r \in DOMAIN css.rules |-> ClipNowrap(aligned.rules[r])])
        broken == IF isInlineStyle
                  THEN [clipped EXCEPT !.rules[1].decls = PageBreakInline(@)]
                  ELSE ReplaceRules(clipped,
                                    [r \in DOMAIN css.rules |-> PageBreakBlock(clipped.rules[r])])
        bled == ReplaceRules(broken,
                             [r \in DOMAIN css.rules |-> Bleed(broken.rules[r], vertical)])
        unset == ReplaceRules(bled, [r \in DOMAIN css.rules |-> UnsetBodyFont(bled.rules[r])])
    IN GlobalReplacements(unset, vw, vh, isMobile)

(***************************************************************************)
(* The texts and settings transformStylesheet is run on.                   *)
(***************************************************************************)
\* the input declarations: property name and value
Declarations ==
    { [prop |-> "text-align", val |-> <<Word("center")>>],
      [prop |-> "text-indent", val |-> <<Num(0, 1)>>],
      [prop |-> "text-indent", val |-> <<Num(0, 1), Word("vw")>>],
      [prop |-> "white-space", val |-> <<Word("nowrap")>>],
      [prop |-> "text-overflow", val |-> <<Word("ellipsis")>>],
      [prop |-> "page-break-after", val |-> <<Word("always")>>],
      [prop |-> "margin-bottom", val |-> <<Num(1, 1), Word("em")>>],
      [prop |-> "scroll-margin-bottom", val |-> <<Num(0, 1)>>],
      [prop |-> "width", val |-> <<Num(50, 1), Word("vw")>>],
      [prop |-> "height", val |-> <<Num(50, 1), Word("vh")>>],
      [prop |-> "font-size", val |-> <<Num(5, 1), Word("vw")>>],
      [prop |-> "font-size", val |-> <<Num(12, 1), Word("px")>>],
      [prop |-> "font-size", val |-> <<Word("smaller")>>],
      [prop |-> "font-family", val |-> <<Word("serif")>>],
      [prop |-> "duokan-bleed", val |-> <<Word("lefttop")>>],
      [prop |-> "user-select", val |-> <<Word("none")>>],
      [prop |-> "color", val |-> <<Word("#000")>>],
      [prop |-> "-webkit-user-select", val |-> <<Word("none")>>],
      [prop |-> "overflow", val |-> <<Word("auto")>>],
      [prop |-> "duokan-bleed", val |-> <<Word("top")>>],
      [prop |-> "margin-top", val |-> <<Num(0, 1)>>],
      [prop |-> "color", val |-> <<Word("#000abc")>>] }

\* the selectors of the input rules; "" stands for an inline style
Selectors == {"p", "body"}
InlineStyle == ""

\* viewport, writing direction and platform (getOSPlatform)
Environments ==
    { [vw |-> 800, vh |-> 600, vertical |-> v, isMobile |-> FALSE] : v \in BOOLEAN }
    \cup { [vw |-> 375, vh |-> 667, vertical |-> v, isMobile |-> TRUE] : v \in BOOLEAN }

\* the text of n declarations, the last one with or without its ';'
CssOf(sel, tight, ds, lastSemi) ==
    Css(sel = InlineStyle,
        <<Rule(sel, tight,
               [k \in DOMAIN ds |-> Decl(ds[k].prop, ds[k].val, k < Len(ds) \/ lastSemi)])>>)

InitCss ==
    /\ doc = <<>>
    /\ batchSize = 1
    /\ targetRange = NoRange
    /\ build = Idle
    /\ blocks = <<>>
    /\ index = 0 - 1
    /\ scan = NoScan
    /\ call = NoCall
    /\ style = NoStyle
    /\ rival = Idle
    /\ faults = {}
    /\ download = NoDownload
    /\ \E n \in 1..MaxDecls : \E ds \in [1..n -> Declarations] :
       \E sel \in Selectors \cup {InlineStyle}, tight \in BOOLEAN, lastSemi \in BOOLEAN,
          env \in Environments :
          sheet = [input |-> CssOf(sel, tight, ds, lastSemi),
                   css |-> CssOf(sel, tight, ds, lastSemi),
                   prev |-> CssOf(sel, tight, ds, lastSemi),
                   applied |-> 0, env |-> env]

\* the transformer is applied to the text of the last application
ApplyTransform ==
    /\ sheet.applied < MaxApply
    /\ sheet' = [sheet EXCEPT
                   !.css = transformStylesheet(sheet.css, sheet.env.vw, sheet.env.vh,
                                               sheet.env.vertical, sheet.env.isMobile),
                   !.prev = sheet.css,
                   !.applied = @ + 1]
    /\ UNCHANGED <<doc, batchSize, targetRange, build, blocks, index, scan, call, style,
                   rival, faults, download>>

NextCss == ApplyTransform

SpecCss == InitCss /\ [][NextCss]_vars

(***************************************************************************)
(* What transformStylesheet is to do, stated on the input and the output.  *)
(***************************************************************************)
InputDecls == sheet.input.rules[1].decls
OutputDecls == sheet.css.rules[1].decls
Transformed == sheet.applied >= 1

\* C8: applying transformStylesheet to its own output returns that output
\* unchanged, for rule blocks and inline declaration lists, every viewport
\* and both values of the vertical flag.
C8_Idempotent ==
    sheet.applied >= 2 => sheet.css = sheet.prev

\* the declarations of the margin-bottom property
MarginBottoms(decls) == { k \in 1..Len(decls) : decls[k].prop = "margin-bottom" }

\* C9: an inline style with page-break-after: always and no margin-bottom
\* declaration ends, after one or more applications, with exactly one
\* appended margin-bottom: calc(var(--available-height) * 1px); with a
\* margin-bottom declaration present, nothing is added.
C9_PageBreakShim ==
    (/\ Transformed /\ sheet.input.inline
     /\ \E k \in 1..Len(InputDecls) :
           /\ InputDecls[k].prop = "page-break-after"
           /\ InputDecls[k].val = <<Word("always")>>) =>
        IF MarginBottoms(InputDecls) = {}
        THEN /\ Len(OutputDecls) = Len(InputDecls) + 1
             /\ MarginBottoms(OutputDecls) = {Len(OutputDecls)}
             /\ OutputDecls[Len(OutputDecls)].val = AvailableHeight
        ELSE /\ Len(OutputDecls) = Len(InputDecls)
             /\ MarginBottoms(OutputDecls) = MarginBottoms(InputDecls)

\* the value is the length <n>vw or <n>vh
IsViewportLength(val, unit) ==
    Len(val) = 2 /\ val[1].t = "num" /\ val[2] = Word(unit)

\* the length n * size / 100 px at the start of the value
StartsWithPx(val, q, size) ==
    Len(val) >= 2 /\ val[1] = Num(q.n * size, q.d * 100) /\ val[2] = Word("px")

\* C10: every length <n>vw is replaced by (n * viewportWidth / 100)px and
\* every <n>vh by (n * viewportHeight / 100)px, and no vw or vh unit is
\* left in the output.
C10_ViewportUnitsConverted ==
    Transformed =>
        /\ \A k \in 1..Len(OutputDecls) : \A a \in 1..Len(OutputDecls[k].val) :
              OutputDecls[k].val[a] \notin {Word("vw"), Word("vh")}
        /\ \A k \in 1..Len(InputDecls) :
              /\ IsViewportLength(InputDecls[k].val, "vw") =>
                    StartsWithPx(OutputDecls[k].val, InputDecls[k].val[1], sheet.env.vw)
              /\ IsViewportLength(InputDecls[k].val, "vh") =>
                    StartsWithPx(OutputDecls[k].val, InputDecls[k].val[1], sheet.env.vh)

(***************************************************************************)
(* Style generation: getFontStyles, getThemeCode and getStyles.  A CSS     *)
(* text that comes from a template is kept as the values that fill the     *)
(* template's holes, in the order of the holes; the fixed text between     *)
(* the holes is the same in every text and is not kept.                    *)
(***************************************************************************)
\* the font lists of '@/services/constants'
constants ==
    [SERIF_FONTS |-> <<"Bitter", "Georgia", "Times New Roman">>,
     CJK_SERIF_FONTS |-> <<"LXGW WenKai">>,
     SANS_SERIF_FONTS |-> <<"Roboto">>,
     CJK_SANS_SERIF_FONTS |-> <<"Noto Sans SC">>,
     MONOSPACE_FONTS |-> <<"Fira Code", "Consolas">>,
     FALLBACK_FONTS |-> <<"MiSans L3">>]

\* the values written into the text of getFontStyles: lines 19-107
getFontStyles(serif, sansSerif, monospace, defaultFont, defaultCJKFont, fontSize, minFontSize, fontWeight, overrideFont) ==
    LET includes(array, x) == \E i \in DOMAIN array : array[i] = x
        toLowerCase(s) == IF s = "Serif" THEN "serif"
                          ELSE IF s = "Sans-serif" THEN "sans-serif" ELSE s
        Other(font) == font # serif /\ font # defaultCJKFont
        Plain(font) == Other(font) /\ ~includes(<<"Georgia", "Times New Roman">>, font)
        OtherSans(font) == font # sansSerif /\ font # defaultCJKFont
        OtherMono(font) == font # monospace
        Last(font) == /\ includes(constants.SERIF_FONTS, font)
                      /\ ~includes(<<"Georgia", "Times New Roman">>, defaultCJKFont)
        serifFonts ==
            <<serif>> \o (IF defaultCJKFont # serif THEN <<defaultCJKFont>> ELSE <<>>)
            \o SelectSeq(constants.SERIF_FONTS, Plain)
            \o SelectSeq(constants.CJK_SERIF_FONTS, Other)
            \o SelectSeq(<<"Georgia", "Times New Roman">>, Last)
            \o constants.FALLBACK_FONTS
        sansSerifFonts ==
            <<sansSerif>>
            \o (IF defaultCJKFont # sansSerif THEN <<defaultCJKFont>> ELSE <<>>)
            \o SelectSeq(constants.SANS_SERIF_FONTS, OtherSans)
            \o SelectSeq(constants.CJK_SANS_SERIF_FONTS, OtherSans)
            \o constants.FALLBACK_FONTS
        monospaceFonts == <<monospace>> \o SelectSeq(constants.MONOSPACE_FONTS, OtherMono)
        defaultFontFamily ==
            IF toLowerCase(defaultFont) = "serif" THEN "--serif" ELSE "--sans-serif"
    IN [serif |-> serifFonts, sansSerif |-> sansSerifFonts, monospace |-> monospaceFonts,
        fontSize |-> fontSize, minFontSize |-> minFontSize, fontWeight |-> fontWeight,
        fontFamily |-> defaultFontFamily, overrideFont |-> overrideFont]

\* a palette, by the entries that are read: '@/styles/themes'
Palette(bg, fg, primary, shade) ==
    ("base-100" :> bg) @@ ("base-200" :> shade) @@ ("base-content" :> fg)
    @@ ("primary" :> primary)

\* the built-in themes of '@/styles/themes'
themes ==
    << [name |-> "default", label |-> "Default",
        colors |-> [light |-> Palette("#ffffff", "#171717", "#0066cc", "#f2f2f2"),
                    dark |-> Palette("#222222", "#e0e0e0", "#77bbee", "#2e2e2e")]],
       [name |-> "sepia", label |-> "Sepia",
        colors |-> [light |-> Palette("#f1e8d0", "#5b4636", "#008080", "#e5dcc4"),
                    dark |-> Palette("#342e25", "#ffd595", "#d8deba", "#403a31")]] >>

\* '@/styles/themes': the palette grown from the seed colours of a custom theme
generateLightPalette(seed) ==
    Palette(seed.bg, seed.fg, seed.primary, "darker " \o seed.bg)
generateDarkPalette(seed) ==
    Palette(seed.bg, seed.fg, seed.primary, "lighter " \o seed.bg)

\* mutant: the system's preference is followed in every mode but 'dark'
isDarkMode_SystemWins(themeMode, systemIsDarkMode) ==
    themeMode = "dark" \/ systemIsDarkMode

\* line 551
isDarkMode(themeMode, systemIsDarkMode) ==
    themeMode = "dark" \/ (themeMode = "auto" /\ systemIsDarkMode)

\* mutant: a custom theme is looked up before the built-in themes
currentTheme_CustomFirst(themeColor, customThemes) ==
    LET find(array, name) ==
            IF \E i \in DOMAIN array : array[i].name = name
            THEN CHOOSE i \in DOMAIN array :
                    array[i].name = name /\ \A j \in 1..(i - 1) : array[j].name # name
            ELSE 0
        custom == find(customThemes, themeColor)
        builtIn == find(themes, themeColor)
    IN IF custom # 0
       THEN [light |-> generateLightPalette(customThemes[custom].colors.light),
             dark |-> generateDarkPalette(customThemes[custom].colors.dark)]
       ELSE IF builtIn # 0 THEN themes[builtIn].colors ELSE themes[1].colors

\* the colours of the theme that is used: lines 552-566; find gives the
\* index of the first theme of that name, or 0
currentTheme(themeColor, customThemes) ==
    LET find(array, name) ==
            IF \E i \in DOMAIN array : array[i].name = name
            THEN CHOOSE i \in DOMAIN array :
                    array[i].name = name /\ \A j \in 1..(i - 1) : array[j].name # name
            ELSE 0
        builtIn == find(themes, themeColor)
        custom == find(customThemes, themeColor)
    IN IF builtIn # 0 THEN themes[builtIn].colors
       ELSE IF custom # 0
       THEN [light |-> generateLightPalette(customThemes[custom].colors.light),
             dark |-> generateDarkPalette(customThemes[custom].colors.dark)]
       ELSE themes[1].colors

\* an exception that leaves the function instead of a value
Threw(error) == [threw |-> error]
IsThrown(value) == "threw" \in DOMAIN value

\* getThemeCode(), by what it reads: whether there is a window, the entries of
\* localStorage ("" for an entry that is absent or empty) and the match of
\* the media query (prefers-color-scheme: dark).  Of the text stored as
\* customThemes the store holds what JSON.parse makes of it (json: an
\* array, a value that is no array, or a SyntaxError for malformed text)
\* and the array's entries.  Nothing is caught: JSON.parse throws at line
\* 548, customThemes.find at line 554 is no function where the value is no
\* array, and customTheme.colors.light at line 560 reads a property of
\* undefined where the entry has no colors
getThemeCode(env) ==
    LET themeColor == IF env.window /\ env.localStorage.themeColor # ""
                      THEN env.localStorage.themeColor ELSE "default"
        themeMode == IF env.window /\ env.localStorage.themeMode # ""
                     THEN env.localStorage.themeMode ELSE "auto"
        customThemes == IF env.window THEN env.localStorage.customThemes ELSE <<>>
        systemIsDarkMode == env.window /\ env.matches
        dark == isDarkMode(themeMode, systemIsDarkMode)
        colors == currentTheme(themeColor, customThemes)
        defaultPalette == IF dark THEN colors.dark ELSE colors.light
        builtIn == \E i \in DOMAIN themes : themes[i].name = themeColor
        named == { i \in DOMAIN customThemes : customThemes[i].name = themeColor }
    IN IF env.window /\ env.localStorage.json = "malformed" THEN Threw("SyntaxError")
       ELSE IF ~builtIn /\ env.window /\ env.localStorage.json = "object"
       THEN Threw("TypeError")
       ELSE IF /\ ~builtIn /\ named # {}
               /\ "colors" \notin DOMAIN customThemes[CHOOSE i \in named :
                                                         \A j \in named : i <= j]
       THEN Threw("TypeError")
       ELSE [bg |-> defaultPalette["base-100"], fg |-> defaultPalette["base-content"],
             primary |-> defaultPalette["primary"], palette |-> defaultPalette,
             isDarkMode |-> dark]

\* the values written into the text of getLayoutStyles: lines 234-498
getLayoutStyles(overrideLayout, marginTop, marginRight, marginBottom, marginLeft, paragraphMargin, lineSpacing, wordSpacing, letterSpacing, textIndent, justify, hyphenate, zoomLevel, writingMode, vertical) ==
    [textAlign |-> IF justify THEN "justify" ELSE "start",
     margin |-> <<marginTop, marginRight, marginBottom, marginLeft>>,
     writingMode |-> IF writingMode = "auto" THEN "" ELSE writingMode,
     zoom |-> zoomLevel, lineHeight |-> lineSpacing, wordSpacing |-> wordSpacing,
     letterSpacing |-> letterSpacing, textIndent |-> textIndent,
     hyphens |-> IF hyphenate THEN "auto" ELSE "manual",
     important |-> overrideLayout, justify |-> justify /\ overrideLayout,
     initial |-> ~justify /\ overrideLayout,
     vertical |-> vertical, paragraphMargin |-> paragraphMargin]

\* the values written into the text of getColorStyles: lines 122-232
getColorStyles(overrideColor, invertImgColorInDark, themeCode, backgroundTextureId, isEink) ==
    [textureId |-> backgroundTextureId, bg |-> themeCode.bg, fg |-> themeCode.fg,
     primary |-> themeCode.primary, overrideColor |-> overrideColor,
     colorScheme |-> IF themeCode.isDarkMode THEN "dark" ELSE "light",
     isEink |-> isEink,
     link |-> IF overrideColor THEN themeCode.primary
              ELSE IF themeCode.isDarkMode THEN "lightblue" ELSE "",
     invert |-> themeCode.isDarkMode /\ invertImgColorInDark,
     multiply |-> ~themeCode.isDarkMode /\ overrideColor]

\* the value written into the text of getTranslationStyles: lines 508-526
getTranslationStyles(showSource) == [margin |-> showSource]

\* no ThemeCode is passed
NoThemeCode ==
    [bg |-> "", fg |-> "", primary |-> "", palette |-> Palette("", "", "", ""),
     isDarkMode |-> FALSE]

\* mutant: the theme is read from the store whether or not one is passed
themeCodeOrStored_Always(themeCode, env) == getThemeCode(env)

\* lines 578-580: a ThemeCode that is not passed is read from the store
themeCodeOrStored(themeCode, env) ==
    IF themeCode = NoThemeCode THEN getThemeCode(env) ELSE themeCode

\* getStyles(viewSettings, themeCode): the five texts that are joined, in
\* their order; the font size is defaultFontSize * fontScale * zoomScale
getStyles(viewSettings, themeCode, env) ==
    LET theme == themeCodeOrStored(themeCode, env)
        isMobile == env.platform \in {"ios", "android"}
        zoomLevel == IF viewSettings.zoomLevel = 0 THEN 100 ELSE viewSettings.zoomLevel
    IN IF IsThrown(theme) THEN theme ELSE
       << getLayoutStyles(viewSettings.overrideLayout, viewSettings.marginTopPx,
                          viewSettings.marginRightPx, viewSettings.marginBottomPx,
                          viewSettings.marginLeftPx, viewSettings.paragraphMargin,
                          viewSettings.lineHeight, viewSettings.wordSpacing,
                          viewSettings.letterSpacing, viewSettings.textIndent,
                          viewSettings.fullJustification, viewSettings.hyphenation, 1,
                          viewSettings.writingMode, viewSettings.vertical),
          getFontStyles(viewSettings.serifFont, viewSettings.sansSerifFont,
                        viewSettings.monospaceFont, viewSettings.defaultFont,
                        viewSettings.defaultCJKFont,
                        Num(viewSettings.defaultFontSize * (IF isMobile THEN 5 ELSE 4)
                            * zoomLevel, 400),
                        viewSettings.minimumFontSize, viewSettings.fontWeight,
                        viewSettings.overrideFont),
          getColorStyles(viewSettings.overrideColor, viewSettings.invertImgColorInDark,
                         theme, viewSettings.backgroundTextureId, viewSettings.isEink),
          getTranslationStyles(viewSettings.showTranslateSource),
          viewSettings.userStylesheet >>

(***************************************************************************)
(* The settings, the stored theme and the platform that style generation   *)
(* is run with.                                                            *)
(***************************************************************************)
\* the seed colours of a custom theme
Seed(bg, fg, primary) == [bg |-> bg, fg |-> fg, primary |-> primary]
CustomTheme(name) ==
    [name |-> name, label |-> name,
     colors |-> [light |-> Seed("#fafaf0", "#101010", "#aa3300"),
                 dark |-> Seed("#101020", "#f0f0ff", "#ffaa88")]]

\* the stored list of custom themes: none, or one named like a built-in
\* theme followed by one with a name of its own
CustomThemeLists == { <<>>, <<CustomTheme("sepia"), CustomTheme("mine")>> }

\* server side there is no window, hence no store and no media query
NoWindow ==
    [window |-> FALSE,
     localStorage |-> [themeColor |-> "", themeMode |-> "", customThemes |-> <<>>,
                       json |-> "array"],
     matches |-> FALSE, platform |-> "macos"]

Stores ==
    { [window |-> TRUE,
       localStorage |-> [themeColor |-> c, themeMode |-> m, customThemes |-> l,
                         json |-> "array"],
       matches |-> d, platform |-> p] :
      c \in {"", "sepia", "mine", "gone"}, m \in {"", "auto", "light", "dark"},
      l \in CustomThemeLists, d \in BOOLEAN, p \in {"macos", "ios"} }
    \cup {NoWindow}

\* a custom theme as stored by a writer that left out the seed colours
SeedlessTheme(name) == [name |-> name, label |-> name]

\* stores whose customThemes entry is not the text of a list of complete
\* themes: malformed text, the text of a value that is no array, a list
\* with an entry without colours; the mode may be a string that is none of
\* the three modes
DamagedStores ==
    { [window |-> TRUE,
       localStorage |-> [themeColor |-> c, themeMode |-> m, customThemes |-> l[2],
                         json |-> l[1]],
       matches |-> d, platform |-> "macos"] :
      c \in {"", "sepia", "mine", "gone"}, m \in {"", "dark", "sepia-mode"},
      l \in { <<"malformed", <<>>>>, <<"object", <<>>>>,
              <<"array", <<CustomTheme("sepia"), SeedlessTheme("mine")>>>> },
      d \in BOOLEAN }

DefaultStore ==
    [window |-> TRUE,
     localStorage |-> [themeColor |-> "", themeMode |-> "", customThemes |-> <<>>,
                       json |-> "array"],
     matches |-> FALSE, platform |-> "macos"]

DefaultSettings ==
    [overrideLayout |-> FALSE, marginTopPx |-> 44, marginRightPx |-> 16,
     marginBottomPx |-> 44, marginLeftPx |-> 16, paragraphMargin |-> 1,
     lineHeight |-> 2, wordSpacing |-> 0, letterSpacing |-> 0, textIndent |-> 0,
     fullJustification |-> TRUE, hyphenation |-> TRUE, writingMode |-> "auto",
     vertical |-> FALSE, zoomLevel |-> 100, serifFont |-> "Bitter",
     sansSerifFont |-> "Roboto", monospaceFont |-> "Consolas", defaultFont |-> "Serif",
     defaultCJKFont |-> "LXGW WenKai", defaultFontSize |-> 16, minimumFontSize |-> 8,
     fontWeight |-> 400, overrideFont |-> FALSE, overrideColor |-> FALSE,
     invertImgColorInDark |-> FALSE, backgroundTextureId |-> "none", isEink |-> FALSE,
     showTranslateSource |-> TRUE, userStylesheet |-> ""]

\* the fonts a user can choose: those of the static lists and one of their own
Fonts ==
    UNION { { constants[l][i] : i \in DOMAIN constants[l] } : l \in DOMAIN constants }
    \cup {"Custom"}

\* the settings: the fonts of one category and the CJK default vary, or the
\* flags and factors that the font text depends on
ViewSettings ==
    { [DefaultSettings EXCEPT !.serifFont = f, !.defaultCJKFont = c] : f, c \in Fonts }
    \cup { [DefaultSettings EXCEPT !.sansSerifFont = f, !.defaultCJKFont = c] :
            f, c \in Fonts }
    \cup { [DefaultSettings EXCEPT !.monospaceFont = f] : f \in Fonts }

FlagSettings ==
    { [DefaultSettings EXCEPT !.overrideColor = o, !.zoomLevel = z, !.defaultFont = f] :
      o \in BOOLEAN, z \in {0, 150}, f \in {"Serif", "Sans-serif"} }

\* the ThemeCode a caller passes: none, or one it has read earlier
ThemeCodes ==
    { NoThemeCode, getThemeCode(DefaultStore),
      getThemeCode([DefaultStore EXCEPT !.localStorage.themeColor = "sepia",
                                        !.localStorage.themeMode = "dark"]) }

InitStyle ==
    /\ doc = <<>>
    /\ batchSize = 1
    /\ targetRange = NoRange
    /\ build = Idle
    /\ blocks = <<>>
    /\ index = 0 - 1
    /\ scan = NoScan
    /\ call = NoCall
    /\ sheet = NoSheet
    /\ rival = Idle
    /\ faults = {}
    /\ download = NoDownload
    /\ \E s \in ViewSettings \cup FlagSettings, t \in ThemeCodes,
          e \in Stores \cup DamagedStores :
          /\ s \in ViewSettings => e = DefaultStore /\ t # NoThemeCode
          /\ style = [settings |-> s, themeCode |-> t, env |-> e, ret |-> <<>>,
                      prev |-> <<>>, at |-> <<e.matches, e.matches>>,
                      theme |-> NoThemeCode, themeAt |-> e, calls |-> 0, asked |-> FALSE,
                      threw |-> <<>>]

\* getStyles(viewSettings, themeCode) is called and returns, or throws what
\* getThemeCode throws; calls counts the calls that have returned
CallGetStyles ==
    /\ style.calls < MaxApply
    /\ LET ret == getStyles(style.settings, style.themeCode, style.env)
           theme == themeCodeOrStored(style.themeCode, style.env)
       IN
       style' = IF IsThrown(theme)
                THEN [style EXCEPT !.threw = <<"getStyles", ret.threw>>]
                ELSE [style EXCEPT !.ret = ret,
                                   !.prev = style.ret,
                                   !.at = <<style.at[2], style.env.matches>>,
                                   !.calls = @ + 1]
    /\ UNCHANGED <<doc, batchSize, targetRange, build, blocks, index, scan, call, sheet,
                   rival, faults, download>>

\* getThemeCode() is called and returns, or throws; asked is set when it
\* has returned
CallGetThemeCode ==
    /\ ~style.asked \/ style.themeAt # style.env
    /\ LET ret == getThemeCode(style.env) IN
       style' = IF IsThrown(ret)
                THEN [style EXCEPT !.threw = <<"getThemeCode", ret.threw>>,
                                   !.themeAt = style.env]
                ELSE [style EXCEPT !.theme = ret, !.themeAt = style.env,
                                   !.asked = TRUE]
    /\ UNCHANGED <<doc, batchSize, targetRange, build, blocks, index, scan, call, sheet,
                   rival, faults, download>>

\* the system switches between its light and its dark appearance
ColorSchemeChange ==
    /\ style.env.window
    /\ style' = [style EXCEPT !.env.matches = ~@]
    /\ UNCHANGED <<doc, batchSize, targetRange, build, blocks, index, scan, call, sheet,
                   rival, faults, download>>

NextStyle == CallGetStyles \/ CallGetThemeCode \/ ColorSchemeChange

SpecStyle == InitStyle /\ [][NextStyle]_vars

(***************************************************************************)
(* What style generation is to do.                                         *)
(***************************************************************************)
\* the font text in the last return of getStyles
FontStacks == style.ret[2]
NoFontTwice(stack) == \A i, j \in DOMAIN stack : stack[i] = stack[j] => i = j
StylesReturned == style.calls >= 1

\* C11: each of the --serif, --sans-serif and --monospace stacks lists the
\* font the user chose for that category first and holds no font name twice
C11_FontStacks ==
    StylesReturned =>
        /\ FontStacks.serif[1] = style.settings.serifFont
        /\ FontStacks.sansSerif[1] = style.settings.sansSerifFont
        /\ FontStacks.monospace[1] = style.settings.monospaceFont
        /\ NoFontTwice(FontStacks.serif)
        /\ NoFontTwice(FontStacks.sansSerif)
        /\ NoFontTwice(FontStacks.monospace)

\* C12: two calls of getStyles with the same settings and the same passed
\* ThemeCode return the same text
C12_Deterministic ==
    (style.calls >= 2 /\ style.themeCode # NoThemeCode) => style.ret = style.prev

\* two calls with a passed ThemeCode, the system's appearance having
\* changed between them
C12_Witness ==
    style.calls >= 2 /\ style.themeCode # NoThemeCode /\ style.at[1] # style.at[2]

\* what getThemeCode found in the store when it was called
StoredMode ==
    IF style.themeAt.localStorage.themeMode = "" THEN "auto"
    ELSE style.themeAt.localStorage.themeMode
StoredColor ==
    IF style.themeAt.localStorage.themeColor = "" THEN "default"
    ELSE style.themeAt.localStorage.themeColor
Side(colors) == IF style.theme.isDarkMode THEN colors.dark ELSE colors.light

\* C13: isDarkMode is (mode = dark) or (mode = auto and the system prefers
\* dark), the mode being auto when none is stored; bg, fg and primary come
\* from the dark palette of the theme exactly when isDarkMode holds; the
\* mode light never gives dark
C13_DarkMode ==
    style.asked =>
        LET colors == currentTheme(StoredColor, style.themeAt.localStorage.customThemes)
            palette == IF style.theme.isDarkMode THEN colors.dark ELSE colors.light
        IN /\ style.theme.isDarkMode
                = (StoredMode = "dark" \/ (StoredMode = "auto" /\ style.themeAt.matches))
           /\ style.theme.bg = palette["base-100"]
           /\ style.theme.fg = palette["base-content"]
           /\ style.theme.primary = palette["primary"]
           /\ StoredMode = "light" => ~style.theme.isDarkMode

\* the mode light is stored and the system prefers dark
C13_Witness ==
    style.asked /\ StoredMode = "light" /\ style.themeAt.matches
    /\ style.theme.bg = themes[1].colors.light["base-100"]

\* C14: a built-in theme of the stored name is used, also where a custom
\* theme has that name; else the custom theme of that name, its seed colours
\* grown by generateLightPalette and generateDarkPalette; else the first
\* built-in theme
C14_ThemeOrder ==
    style.asked =>
        LET customThemes == style.themeAt.localStorage.customThemes
            builtIn == { i \in DOMAIN themes : themes[i].name = StoredColor }
            custom == { i \in DOMAIN customThemes : customThemes[i].name = StoredColor }
            earliest == CHOOSE i \in custom : \A j \in custom : i <= j
        IN IF builtIn # {}
           THEN \E i \in builtIn : style.theme.palette = Side(themes[i].colors)
           ELSE IF custom # {}
           THEN style.theme.palette =
                    Side([light |-> generateLightPalette(customThemes[earliest].colors.light),
                          dark |-> generateDarkPalette(customThemes[earliest].colors.dark)])
           ELSE style.theme.palette = Side(themes[1].colors)

\* the stored name is that of a built-in theme and of a custom theme
C14_Witness ==
    /\ style.asked
    /\ StoredColor = "sepia"
    /\ \E i \in DOMAIN style.themeAt.localStorage.customThemes :
          style.themeAt.localStorage.customThemes[i].name = "sepia"
    /\ style.theme.palette = Side(themes[2].colors)

(***************************************************************************)
(* Builds in which boundary operations throw.                              *)
(***************************************************************************)
\* most operations that throw in one build
MaxFaults == 2

\* the calls of createRange, setStart, setEndBefore and setEndAfter that a
\* build of the document can make: in the loop at an element, or after it
FaultSites(d) ==
    { <<op, n>> : op \in {"setEndBefore", "createRange", "setStart"},
                  n \in { i \in 1..Len(d) : IsElement(d, i) } }
    \cup { <<op, NoNode>> : op \in {"createRange", "setStart", "setEndAfter"} }

InitFault ==
    /\ \E n \in 0..MaxParas : doc \in NavDocs(n)
    /\ batchSize \in 1..MaxBatch
    /\ targetRange = NoRange
    /\ build = Idle
    /\ blocks = <<>>
    /\ index = 0 - 1
    /\ scan = NoScan
    /\ call = NoCall
    /\ sheet = NoSheet
    /\ style = NoStyle
    /\ rival = Idle
    /\ faults \in { f \in SUBSET FaultSites(doc) : Cardinality(f) <= MaxFaults }
    /\ download = NoDownload

SpecFault == InitFault /\ [][Next]_vars

(***************************************************************************)
(* What the build is to do under batching and under throwing operations.   *)
(***************************************************************************)
\* the blocks of a build of the document in one turn, nothing throwing: the
\* batch size is larger than the number of nodes, so the loop never awaits
Unbatched(d) == StartBuild(d, Len(d) + 2, {}).blocks

\* C15: for every batch size the finished build has the blocks of a single
\* pass without yields, in the same order
C15_BatchIndependent == BuildDone => build.blocks = Unbatched(doc)

\* a build of at least two blocks that was suspended at least twice
C15_Witness ==
    BuildDone /\ build.processed >= 2 * batchSize /\ Len(build.blocks) >= 2

RECURSIVE IsSubsequence(_, _)
IsSubsequence(s, t) ==
    IF s = <<>> THEN TRUE
    ELSE IF t = <<>> THEN FALSE
    ELSE IF Head(s) = Head(t) THEN IsSubsequence(Tail(s), Tail(t))
    ELSE IsSubsequence(s, Tail(t))

\* C17: whichever boundary operations throw, the finished build has a
\* subsequence of the blocks of the build in which nothing throws
C17_FailuresOnlyDrop == BuildDone => IsSubsequence(build.blocks, Unbatched(doc))

\* the elements that one step of the build has taken from the walker
ProcessedInTurn == build'.processed - build.processed
Elements(d) == { i \in 1..Len(d) : IsElement(d, i) }

\* C18: no turn of the build takes more than batchSize elements from the
\* walker, and a build that walks to the end of the document in its first
\* turn has at most batchSize elements
C18_BatchBound ==
    [][/\ ProcessedInTurn <= batchSize
       /\ (build.pc = "idle" /\ build'.pc = "done" /\ build'.node = NoNode)
             => Cardinality(Elements(doc)) <= batchSize]_vars

\* the build is suspended for the second time, each turn having taken a
\* full batch of more than one element
C18_Witness == build.pc = "yield" /\ batchSize >= 2 /\ build.processed = 2 * batchSize

\* the blocks of an activation are the first blocks of the build run alone
RECURSIVE IsPrefix(_, _)
IsPrefix(s, t) ==
    IF s = <<>> THEN TRUE
    ELSE IF t = <<>> THEN FALSE
    ELSE Head(s) = Head(t) /\ IsPrefix(Tail(s), Tail(t))
AsAlone(b) ==
    IF b.pc = "done" THEN b.blocks = Unbatched(doc) ELSE IsPrefix(b.blocks, Unbatched(doc))

\* C16: of two builds of one document whose turns interleave in any order,
\* each collects the blocks of the build run alone and resolves with them
C16_BuildsIndependent == AsAlone(build) /\ AsAlone(rival)

\* both builds are suspended in the middle of the document, at different
\* nodes, each with a block of its own collected
C16_Witness ==
    /\ build.pc = "yield" /\ rival.pc = "yield"
    /\ build.node # rival.node
    /\ Len(build.blocks) + Len(rival.blocks) >= 1

\* an activation stands at an await, its continuation handed to the scheduler
Suspended == build.pc = "yield" \/ rival.pc = "yield" \/ scan.pc = "yield"

\* C19: under a scheduler that runs every deferred continuation, every
\* build that was started resolves, also the one that is no longer waited
\* for, and every findByRangeAsync that was started resolves: again and
\* again no activation is left suspended (a build that has resolved stays
\* resolved, a scan can be started again)
C19_Resolves == []<>(~Suspended)

\* the first build has resolved after being suspended; the other build and
\* a scan of the iterator are suspended, their continuations pending
C19_Witness ==
    /\ build.pc = "done" /\ build.processed >= batchSize
    /\ rival.pc = "yield"
    /\ scan.pc = "yield"

\* the value returned by the last call and the cursor after it
ResultIs(o) == call.ret = o.ret /\ index = o.index

\* C20: findByRangeAsync returns and does not reject; where every
\* comparison throws, or no block overlaps or touches the target, it gives
\* what findByNode(target.startContainer) gives, which for a target of
\* another document is what first() gives; for a null target it gives what
\* first() gives
C20_NeverRejects ==
    call.op = "findByRangeAsync" =>
        /\ call.via # "rejected"
        /\ call.target = NoRange => ResultIs(FirstResult(blocks, call.before))
        /\ call.target = ForeignRange =>
              /\ ResultIs(FindByNodeResult(doc, blocks, call.before, Foreign))
              /\ ResultIs(FirstResult(blocks, call.before))
        /\ (call.target \notin {NoRange, ForeignRange}
               /\ Overlapping(blocks, call.target) = {}) =>
              ResultIs(FindByNodeResult(doc, blocks, call.before,
                                        call.target.startContainer))

\* the comparisons with both blocks threw and the cursor went from the
\* second block to the first
C20_Witness ==
    /\ call.op = "findByRangeAsync" /\ call.target = ForeignRange
    /\ Len(blocks) = 2 /\ call.before = 1
    /\ index = 0 /\ call.ret = BlockAt(blocks, 0)

(***************************************************************************)
(* Which block-tag elements move the boundary of the open range.           *)
(***************************************************************************)
\* a block-tag element with a block-tag child and no direct meaningful text
Transparent(d, i) == d[i].kind \in blockTags /\ i \notin Qualifying(d)

\* the range that is open at element i, closed immediately before i
ClosedBefore(d, r, i) ==
    [r EXCEPT !.endContainer = ParentOf(d, i), !.end = OpenTok(d, i)]

\* a turn of a build of batch size 1 that examines exactly the element at
\* which the build was suspended
VisitsOne == batchSize = 1 /\ build.pc = "yield" /\ build'.pc = "yield"

\* C21: a block-tag element with a block-tag child and no direct meaningful
\* text leaves the open range and the blocks as they are; every other
\* block-tag element ends the open range immediately before itself (the
\* range is kept as a block exactly if it has content) and opens a new
\* range at its own start; an element of another tag changes nothing
C21_TransparentContainers ==
    [][VisitsOne =>
        LET node == build.node IN
        IF doc[node].kind \in blockTags /\ ~Transparent(doc, node)
        THEN /\ build'.last.startContainer = node
             /\ build'.last.start = OpenTok(doc, node) + 1
             /\ build'.last.end = build'.last.start
             /\ build.last = NoRange => build'.blocks = build.blocks
             /\ build.last # NoRange =>
                   build'.blocks =
                      IF MeaningfulContent(doc, ClosedBefore(doc, build.last, node))
                      THEN Append(build.blocks, ClosedBefore(doc, build.last, node))
                      ELSE build.blocks
        ELSE build'.last = build.last /\ build'.blocks = build.blocks]_vars

\* a transparent container was passed while a range was open, and that
\* range is still the open one
C21_Witness ==
    /\ batchSize = 1 /\ build.pc = "yield" /\ build.last # NoRange
    /\ \E t \in 1..(build.node - 1) :
          Transparent(doc, t) /\ build.last.startContainer < t

(***************************************************************************)
(* What the passes of transformStylesheet are to do to single              *)
(* declarations and rules.                                                 *)
(***************************************************************************)
\* user-select and its vendor-prefixed variants
UserSelectProps ==
    { "user-select", "-webkit-user-select", "-moz-user-select", "-ms-user-select",
      "-o-user-select" }

\* the declaration forbids text selection
SelectNone(decl) ==
    decl.prop \in UserSelectProps /\ Len(decl.val) >= 1 /\ decl.val[1] = Word("none")

\* C22: the output of transformStylesheet has no declaration user-select:
\* none and no vendor-prefixed variant of it, wherever the declaration
\* stands in the input: after a blank or ';', directly after '{', or first
\* in an inline style; each such declaration has the value unset
C22_NoUserSelectNone ==
    Transformed =>
        /\ \A k \in 1..Len(OutputDecls) : ~SelectNone(OutputDecls[k])
        /\ \A k \in 1..Len(InputDecls) :
              SelectNone(InputDecls[k]) => OutputDecls[k].val = <<Word("unset")>>

\* the declarations of the property itself, whatever their value
Declares(decls, name) == \E k \in 1..Len(decls) : decls[k].prop = name

\* the declaration overflow: clip !important
IsClip(decl) == decl.prop = "overflow" /\ decl.val = <<Word("clip")>> \o Important

\* the declaration white-space: nowrap, with or without a ';' after it
IsNowrap(decl) == decl.prop = "white-space" /\ decl.val = <<Word("nowrap")>>

\* C23: a rule block that declares white-space: nowrap and does not declare
\* overflow has overflow: clip !important added, with or without a ';'
\* after nowrap and whatever else the block declares; a rule that declares
\* overflow gets no overflow added
C23_NowrapClipped ==
    (Transformed /\ ~sheet.input.inline) =>
        /\ ((\E k \in 1..Len(InputDecls) : IsNowrap(InputDecls[k]))
               /\ ~Declares(InputDecls, "overflow")) =>
              \E k \in 1..Len(OutputDecls) : IsClip(OutputDecls[k])
        /\ Declares(InputDecls, "overflow") =>
              \A k \in 1..Len(OutputDecls) :
                  OutputDecls[k].prop = "overflow" =>
                      k <= Len(InputDecls) /\ InputDecls[k].prop = "overflow"

\* the rule carries a duokan-bleed hint that names an edge
HasBleedHint(decls) ==
    \E k \in 1..Len(decls) :
        /\ decls[k].prop = "duokan-bleed"
        /\ \E dir \in {"top", "bottom", "left", "right"} : ValMentions(decls[k].val, dir)

\* the declaration prop: word !important is in the block
Forced(decls, prop, word) ==
    \E k \in 1..Len(decls) :
        decls[k].prop = prop /\ decls[k].val = <<Word(word)>> \o Important

\* a declaration that only the bleed pass writes
FromBleed(decl) ==
    \/ \E dir \in {"top", "bottom", "left", "right"} :
          decl.prop = "margin-" \o dir /\ decl.val = BleedMargin(dir)
    \/ decl.prop = "position" /\ decl.val = <<Word("relative")>> \o Important
    \/ decl.prop = "overflow" /\ decl.val = <<Word("hidden")>> \o Important
    \/ decl.prop = "display" /\ decl.val = <<Word("flow-root")>> \o Important
    \/ decl.prop \in {"width", "max-width", "height", "max-height"}
          /\ decl.val[Len(decl.val)] = Word("!important")

\* C24: in a non-vertical document a rule with a duokan-bleed hint for an
\* edge has position: relative, overflow: hidden and display: flow-root
\* forced, each exactly when the rule does not declare the property
\* already (overflow may have been declared by the nowrap pass), whether
\* or not the rule sets a margin for the bled edge; in a vertical document
\* the bleed pass adds nothing
C24_BleedContainer ==
    (Transformed /\ ~sheet.input.inline) =>
        IF sheet.env.vertical
        THEN \A k \in 1..Len(OutputDecls) : ~FromBleed(OutputDecls[k])
        ELSE HasBleedHint(InputDecls) =>
                /\ Forced(OutputDecls, "position", "relative")
                      <=> ~Declares(InputDecls, "position")
                /\ Forced(OutputDecls, "display", "flow-root")
                      <=> ~Declares(InputDecls, "display")
                /\ Forced(OutputDecls, "overflow", "hidden")
                      <=> ~(\E k \in 1..Len(OutputDecls) :
                               OutputDecls[k].prop = "overflow"
                               /\ ~FromBleed(OutputDecls[k]))

\* the black literals of the colour substitution
BlackLiterals == { "black", "#000", "#000000", "rgb(0,0,0)", "rgb(0, 0, 0)" }

ThemeFg == Word("var(--theme-fg-color)")

\* C29: a color declaration is rewritten to var(--theme-fg-color) only
\* when its value is exactly one of the black literals; a value that only
\* begins with a black literal, and every declaration of another property,
\* has no var(--theme-fg-color) written into it
C29_OnlyExactBlack ==
    Transformed =>
        \A k \in 1..Len(InputDecls) :
            (\E a \in 1..Len(OutputDecls[k].val) : OutputDecls[k].val[a] = ThemeFg) =>
                /\ InputDecls[k].prop = "color"
                /\ Len(InputDecls[k].val) = 1
                /\ InputDecls[k].val[1].s \in BlackLiterals

(***************************************************************************)
(* What getThemeCode is to do with a store that holds anything.            *)
(***************************************************************************)
\* the value has every part of a ThemeCode
IsThemeCode(value) ==
    /\ DOMAIN value = {"bg", "fg", "primary", "palette", "isDarkMode"}
    /\ value.isDarkMode \in BOOLEAN
    /\ value.bg = value.palette["base-100"] /\ value.bg # ""
    /\ value.fg = value.palette["base-content"] /\ value.fg # ""
    /\ value.primary = value.palette["primary"] /\ value.primary # ""

\* C25: getThemeCode throws for no stored themeColor, themeMode and
\* customThemes (an unknown theme name, an unknown mode string, an absent
\* entry, a customThemes text that is not that of a list, a custom theme
\* without seed colours), and what it returns is a complete ThemeCode
C25_ThemeNeverFails ==
    /\ (style.threw # <<>> => style.threw[1] # "getThemeCode")
    /\ style.asked => IsThemeCode(style.theme)

(***************************************************************************)
(* The cursor after a call, and the cursor under calls that overlap.       *)
(***************************************************************************)
\* the operations that move the cursor or look a block up
MovingOps == { "first", "last", "next", "prev", "goTo", "findByNode", "findByRangeAsync" }

\* C26: after first, last, next, prev, goTo, findByNode or findByRangeAsync
\* has returned a range, the cursor is on that range: current() gives the
\* range that was returned; and current() gives null exactly when
\* currentIndex is -1
C26_CursorOnReturned ==
    /\ (call.op \in MovingOps /\ call.ret # NoRange) =>
          /\ BlockAt(blocks, index) = call.ret
          /\ call.ret \in { blocks[k] : k \in 1..Len(blocks) }
    /\ BlockAt(blocks, index) = NoRange <=> index = 0 - 1

\* prev has moved the cursor from the second block to the first
C26_Witness ==
    /\ call.op = "prev" /\ call.before = 1 /\ index = 0
    /\ call.ret = BlockAt(blocks, 0) /\ call.ret # NoRange

(***************************************************************************)
(* Two calls of findByRangeAsync on one iterator whose turns overlap, with *)
(* the synchronous operations running between the turns.  Here `scan`      *)
(* holds the activation of each of the two calls, and with it what was     *)
(* seen when it returned: the order of the calls, the cursor and the last  *)
(* call returned before it, and the cursor it left.                        *)
(***************************************************************************)
Calls == {1, 2}

NotCalled ==
    [pc |-> "idle", i |-> 0, target |-> NoRange, batchSize |-> 1, rank |-> 0, place |-> 0,
     seen |-> 0 - 1, before |-> 0 - 1, prior |-> "", result |-> 0 - 1]

\* the calls that stand at one of the given places
CallsAt(pcs) == Cardinality({ c \in Calls : scan[c].pc \in pcs })

\* the targets of the first call: a collapsed range at the start of each
\* paragraph and at the end of the body, and a range of another document
RaceTargets(d) ==
    { RangeAt(d, q) : q \in { i \in 1..Len(d) : d[i].parent = Body } }
    \cup {RangeOf(d, TotalTok(d), TotalTok(d)), ForeignRange}

InitRace ==
    /\ \E n \in 0..MAX_BLOCKS : doc \in NavDocs(n)
    /\ batchSize = 1
    /\ targetRange \in RaceTargets(doc)
    /\ build = Idle
    /\ blocks = <<>>
    /\ index = 0 - 1
    /\ scan = [c \in Calls |-> NotCalled]
    /\ call = NoCall
    /\ sheet = NoSheet
    /\ style = NoStyle
    /\ rival = Idle
    /\ faults = {}
    /\ download = NoDownload

\* a turn of call c ends: at an await, or with the value returned
RaceTurn(c, sc, r) ==
    IF r.done
    THEN /\ scan' = [scan EXCEPT ![c] = [sc EXCEPT !.pc = "done",
                                                  !.place = CallsAt({"done"}) + 1,
                                                  !.before = index, !.prior = call.op,
                                                  !.result = r.out.index]]
         /\ Return("findByRangeAsync", c, sc.target, r.out)
    ELSE /\ scan' = [scan EXCEPT ![c] = [r.scan EXCEPT !.seen = index]]
         /\ UNCHANGED <<doc, batchSize, targetRange, build, blocks, index, call, sheet,
                        style, rival, faults, download>>

\* findByRangeAsync(targetRange, batchSize) is called, the first call with
\* batch size 1, the second with any; either runs up to its first await
OverlappingScan ==
    /\ Constructed
    /\ \E c \in Calls :
          /\ scan[c].pc = "idle"
          /\ c = 2 => scan[1].pc # "idle"
          /\ \E t \in IF c = 1 THEN {targetRange}
                      ELSE {RangeOf(doc, TotalTok(doc), TotalTok(doc))},
                bs \in IF c = 1 THEN {1} ELSE {1, MaxBatch} :
                LET sc == [NotCalled EXCEPT !.pc = "loop", !.target = t, !.batchSize = bs,
                                            !.rank = CallsAt({"yield", "done"}) + 1,
                                            !.seen = index]
                IN RaceTurn(c, sc, RunScan(doc, blocks, index, sc))

\* the frame callback of one call's yieldToMain resolves
OverlappingScanCallback ==
    \E c \in Calls :
        /\ scan[c].pc = "yield"
        /\ RaceTurn(c, scan[c], RunScan(doc, blocks, index, scan[c]))

\* a call of findByRangeAsync stands at its await
WhileSuspended == CallsAt({"yield"}) >= 1

\* the synchronous operations run between the turns of a suspended call
NextRace ==
    \/ CreateAsync \/ FrameCallback
    \/ WhileSuspended /\ first
    \/ WhileSuspended /\ last
    \/ WhileSuspended /\ next
    \/ WhileSuspended /\ prev
    \/ WhileSuspended /\ goTo
    \/ WhileSuspended /\ findByNode
    \/ OverlappingScan \/ OverlappingScanCallback

SpecRace == InitRace /\ [][NextRace]_vars

\* the cursor that a scan for the target leaves, by the blocks alone: the
\* first block that overlaps or touches the target, else the first block
\* that intersects the target's start container, else the first block
ScanCursor(d, bl, t, idx) ==
    LET over == IF t = ForeignRange THEN {} ELSE Overlapping(bl, t)
        hits == Intersecting(d, bl, t.startContainer)
    IN IF over # {} THEN CHOOSE i \in over : \A j \in over : i <= j
       ELSE IF hits # {} THEN CHOOSE i \in hits : \A j \in hits : i <= j
       ELSE IF Len(bl) = 0 THEN idx ELSE 0

\* call c returns in this step
Returns(c) == scan[c].pc # "done" /\ scan'[c].pc = "done"

\* C27: a scan that returns leaves the cursor on its own result (the block
\* it matched, or what its fallback gives), whatever first, last, next,
\* prev, goTo, findByNode or another scan did to the cursor while it was
\* suspended; so with two overlapping scans the cursor is that of the
\* scan that returned last, whichever was called last
C27_LastReturnWins ==
    /\ [][\A c \in Calls :
            Returns(c) => index' = ScanCursor(doc, blocks, scan'[c].target, index)]_vars
    /\ []((call.op = "findByRangeAsync" /\ \A c \in Calls : scan[c].pc = "done") =>
            \E c \in Calls :
                /\ scan[c].place = 2 /\ call.arg = c
                /\ index = ScanCursor(doc, blocks, scan[c].target, scan[c].before))

\* the first call was suspended; the second call returned cursor 0; then
\* last() moved the cursor; then the first call returned and set the
\* cursor to its own block, which is neither
C27_Witness ==
    /\ scan[1].pc = "done" /\ scan[2].pc = "done"
    /\ scan[1].rank = 1 /\ scan[1].place = 2
    /\ scan[1].prior \in {"first", "last", "next", "prev", "goTo", "findByNode"}
    /\ scan[1].before # scan[1].seen
    /\ scan[1].result # scan[1].before
    /\ scan[2].result # scan[1].result
    /\ call.op = "findByRangeAsync" /\ index = scan[1].result

(***************************************************************************)
(* What the blocks of a build cover.                                       *)
(***************************************************************************)
\* the text nodes with meaningful text and the media elements
ContentNodes(d) ==
    { i \in 1..Len(d) :
        \/ d[i].kind = TextKind /\ hasMeaningfulText(d[i].data)
        \/ d[i].kind \in MEDIA_SELECTOR }

\* the node lies between the boundary points of the range
InsideRange(d, r, i) == r.start <= PointBefore(d, i) /\ PointAfter(d, i) <= r.end

\* the blocks the node is inside
BlocksAround(d, bl, i) == { k \in 1..Len(bl) : InsideRange(d, bl[k], i) }

\* the first qualifying block element
FirstQualifying(d) == CHOOSE q \in Qualifying(d) : \A j \in Qualifying(d) : q <= j

\* C28: with the cap not reached, every meaningful text node and every
\* media element that starts after the start of the first qualifying block
\* element is inside exactly one block and content before it is inside
\* none; a document without qualifying block element has at most the one
\* block from the body's first child to its end
C28_Original ==
    (BuildDone /\ ~CapReached) =>
        IF Qualifying(doc) = {}
        THEN /\ Len(build.blocks) <= 1
             /\ Len(build.blocks) = 1 =>
                   /\ build.blocks[1].start <= PointInside(doc, FirstChild(doc))
                   /\ build.blocks[1].end >= PointAfter(doc, LastChild(doc))
        ELSE \A i \in ContentNodes(doc) :
                Cardinality(BlocksAround(doc, build.blocks, i))
                    = IF PointBefore(doc, i) > PointBefore(doc, FirstQualifying(doc))
                      THEN 1 ELSE 0

\* a qualifying block element lies inside the node: a boundary is set there
CutByBoundary(d, i) == \E q \in Qualifying(d) : q # i /\ InclusiveAncestor(d, i, q)

\* C28 amended: with the cap not reached and no boundary failure, every
\* meaningful text node, and every media element that encloses no
\* qualifying block element, is inside exactly one block if it starts
\* after the start of the first qualifying block element and inside none
\* if it precedes it; a media element that encloses a qualifying block
\* element is cut by the boundary set at that element and is inside no
\* block; a document without qualifying block element has at most the one
\* block from the body's first child to its end
C28_ContentInOneBlock ==
    (BuildDone /\ ~CapReached) =>
        IF Qualifying(doc) = {}
        THEN /\ Len(build.blocks) <= 1
             /\ Len(build.blocks) = 1 =>
                   /\ build.blocks[1].start <= PointInside(doc, FirstChild(doc))
                   /\ build.blocks[1].end >= PointAfter(doc, LastChild(doc))
        ELSE \A i \in ContentNodes(doc) :
                Cardinality(BlocksAround(doc, build.blocks, i))
                    = IF /\ PointBefore(doc, i) > PointBefore(doc, FirstQualifying(doc))
                         /\ ~CutByBoundary(doc, i)
                      THEN 1 ELSE 0

\* a build below the cap with a media element that starts after the first
\* qualifying element and is cut by a boundary, and a text node inside a
\* block
C28_Witness ==
    /\ BuildDone /\ ~CapReached /\ Qualifying(doc) # {}
    /\ \E m, j \in ContentNodes(doc) :
          /\ doc[m].kind \in MEDIA_SELECTOR /\ CutByBoundary(doc, m)
          /\ PointBefore(doc, m) > PointBefore(doc, FirstQualifying(doc))
          /\ doc[j].kind = TextKind
          /\ Cardinality(BlocksAround(doc, build.blocks, j)) = 1

(***************************************************************************)
(* The updater window: downloadWithProgress, and the downloadAndInstall of *)
(* Android, which runs the same body.  The function returns a promise      *)
(* whose executor awaits tauriDownload(downloadUrl, filePath, callback);   *)
(* the callback alone resolves the promise, through a timer of one second, *)
(* and the catch of tauriDownload alone rejects it.  tauriDownload is the  *)
(* transfer plugin: it calls the callback with payloads {progress, total}  *)
(* and then settles.                                                       *)
(***************************************************************************)
\* bytes of the file that is downloaded
DownloadSize == 2

\* progress payloads of one transfer
MaxFeed == 3

\* the payloads the transfer reports: progress never decreases and never
\* exceeds the size; total is the size, or 0 where the size is not known
Payloads(total) == { <<p, total>> : p \in 0..DownloadSize }

Feeds ==
    UNION { { f \in [1..n -> Payloads(total)] :
                \A i \in 1..n : \A j \in i..n : f[i][1] <= f[j][1] } :
            n \in 0..MaxFeed, total \in {0, DownloadSize} }

\* onEvent(event)
Emit(d, event) == [d EXCEPT !.events = Append(@, event)]

\* the progress callback handed to tauriDownload, on one payload
ProgressHandler(d, progress) ==
    IF ~d.onEvent THEN d
    ELSE LET branch ==
                 IF d.total = 0 /\ progress[2] # 0
                 THEN Emit([d EXCEPT !.total = progress[2]],
                           [event |-> "Started", data |-> progress[2]])
                 ELSE IF d.downloaded > 0 /\ progress[1] = progress[2]
                      THEN [Emit(d, [event |-> "Finished", data |-> 0])
                                EXCEPT !.timers = @ + 1]
                      ELSE d
         IN [Emit(branch, [event |-> "Progress", data |-> progress[1] - d.downloaded])
                EXCEPT !.downloaded = progress[1]]

\* resolve() and reject() of the promise: the first of them settles it
Settle(d, outcome) == IF d.promise = "pending" THEN [d EXCEPT !.promise = outcome] ELSE d

InitUpdate ==
    /\ doc = <<>>
    /\ batchSize = 1
    /\ targetRange = NoRange
    /\ build = Idle
    /\ blocks = <<>>
    /\ index = 0 - 1
    /\ scan = NoScan
    /\ call = NoCall
    /\ sheet = NoSheet
    /\ style = NoStyle
    /\ rival = Idle
    /\ faults = {}
    /\ \E h \in BOOLEAN, f \in Feeds, x \in BOOLEAN :
          download = [NoDownload EXCEPT !.onEvent = h, !.feed = f, !.fails = x]

UpdateFrame ==
    UNCHANGED <<doc, batchSize, targetRange, build, blocks, index, scan, call, sheet, style,
                rival, faults>>

\* downloadWithProgress(onEvent) is called: the promise is created and its
\* executor runs up to the await of tauriDownload
DownloadWithProgress ==
    /\ download.pc = "idle"
    /\ download' = [download EXCEPT !.pc = "transfer", !.promise = "pending"]
    /\ UpdateFrame

\* tauriDownload reports the next payload
ProgressCallback ==
    /\ download.pc = "transfer"
    /\ download.feed # <<>>
    /\ download' = ProgressHandler([download EXCEPT !.feed = Tail(@)], Head(download.feed))
    /\ UpdateFrame

\* tauriDownload resolves: the executor has nothing after the await
TransferResolves ==
    /\ download.pc = "transfer"
    /\ download.feed = <<>>
    /\ ~download.fails
    /\ download' = [download EXCEPT !.pc = "over"]
    /\ UpdateFrame

\* tauriDownload rejects: catch((error) => reject(error))
TransferRejects ==
    /\ download.pc = "transfer"
    /\ download.feed = <<>>
    /\ download.fails
    /\ download' = Settle([download EXCEPT !.pc = "failed"], "rejected")
    /\ UpdateFrame

\* a timer set after Finished fires: resolve()
ResolveTimer ==
    /\ download.timers > 0
    /\ download' = Settle([download EXCEPT !.timers = @ - 1], "resolved")
    /\ UpdateFrame

NextUpdate ==
    \/ DownloadWithProgress
    \/ ProgressCallback
    \/ TransferResolves
    \/ TransferRejects
    \/ ResolveTimer

\* the event loop runs every callback and timer that is due
SpecUpdate ==
    /\ InitUpdate
    /\ [][NextUpdate]_vars
    /\ WF_vars(DownloadWithProgress)
    /\ WF_vars(ProgressCallback)
    /\ WF_vars(TransferResolves)
    /\ WF_vars(TransferRejects)
    /\ WF_vars(ResolveTimer)

FinishedEvents == { i \in 1..Len(download.events) : download.events[i].event = "Finished" }

TransferEnded == download.pc \in {"over", "failed"}

PromiseSettled == download.promise \in {"resolved", "rejected"}

\* C30: once tauriDownload has finished or failed the promise returned by
\* downloadWithProgress eventually settles, whatever payloads the progress
\* callback was given and whether or not an onEvent handler was passed,
\* and at most one Finished event is emitted
C30_DownloadSettles ==
    /\ [](Cardinality(FinishedEvents) <= 1)
    /\ TransferEnded ~> PromiseSettled

\* C30, first half: a transfer that has ended leaves the promise settled
C30_SettlesAfterTransfer == TransferEnded ~> PromiseSettled

\* C30, second half: at most one Finished event
C30_FinishedOnce == Cardinality(FinishedEvents) <= 1

\* the promise settles where a transfer fails, and where a handler was
\* passed and a payload with progress = total came after a payload with
\* progress > 0 whose total was known
C30_SettlesWhenFinishedSeen ==
    (TransferEnded /\ (download.fails \/ FinishedEvents # {})) ~> PromiseSettled

====
